---- MODULE Spec2Model ----
(***************************************************************************)
(* The rate-limited, two-tier caching client of the Blizzard API           *)
(* (blizzardClient: getCached and its helpers), as a state machine.        *)
(*                                                                         *)
(* Conventions                                                             *)
(*   - times are integer milliseconds; `now` is Date.now() (wall clock),   *)
(*     `mono` is the monotonic clock that setTimeout timers run on;        *)
(*   - bucket.tokens is real-valued in the code; here it is kept in        *)
(*     thousandths of a token (TOKEN_SCALE), which is exact for integer    *)
(*     millisecond clocks: tokens + elapsedMs/1000 * rate;                 *)
(*   - strings the code inspects (URL, namespace, header) are sequences    *)
(*     of one-character strings; `undefined` is the value Undefined;       *)
(*   - one action is one synchronous run of the code between two awaits.   *)
(***************************************************************************)
EXTENDS Integers, Sequences, FiniteSets, TLC

\* ------------------------------------------------------------- constants

DEFAULT_MAX_LRU_ENTRIES == 300
GLOBAL_RPS == 5
PER_USER_RPS == 2
MAX_RETRIES == 4
BACKOFF_BASE_MS == 1000
MAX_BACKOFF_MS == 8000
JITTER_MS == 250
CLASSIC_NAMESPACE_HINT == <<"c", "l", "a", "s", "s", "i", "c">>

\* tokens are stored in 1/TOKEN_SCALE of a token (1 token = 1000)
TOKEN_SCALE == 1000

\* --------------------------------------------------------------- bounds

\* concurrent getCached calls
NCalls == 2
\* getCached calls made in one run
MaxCalls == 2
\* the clocks stop advancing after MaxSeconds seconds
MaxSeconds == 8
\* the cache-only runs: the memory tier's maxEntries, scaled down from
\* DEFAULT_MAX_LRU_ENTRIES, and the seconds their clock runs
SmallLru == 1
MaxCacheSeconds == 3
\* the bucket-only runs: waitForToken callers beyond the bucket's capacity,
\* the seconds their clocks run, and how far an adjustment can move the wall
\* clock from the timers' clock, in steps of JITTER_MS
ExtraWaiters == 1
MaxBucketSeconds == 1
SkewSteps == 1
\* wall-clock adjustments in one run
MaxJumps == 1
\* the recency runs: the memory tier's maxEntries, scaled down from
\* DEFAULT_MAX_LRU_ENTRIES, on one key more
LruEntries == 2
\* the concurrent runs: getCached calls made, all of them in flight together
ConcCalls == 3
\* and the seconds their clocks run
MaxConcSeconds == 1

\* the runs of two sessions: getCached calls made, and the seconds their
\* clocks run
ShareCalls == 2
ShareSeconds == 2
\* the runs to completion: getCached calls made, all at the start, and the
\* seconds their clocks run
LiveCalls == 3
LiveSeconds == 9

\* ------------------------------------------------------ strings (JS-like)

Undefined == <<"<undefined>">>

UpperChars == <<"A", "B", "C", "D", "E", "F", "G", "H", "I", "J", "K", "L", "M",
                "N", "O", "P", "Q", "R", "S", "T", "U", "V", "W", "X", "Y", "Z">>
LowerChars == <<"a", "b", "c", "d", "e", "f", "g", "h", "i", "j", "k", "l", "m",
                "n", "o", "p", "q", "r", "s", "t", "u", "v", "w", "x", "y", "z">>
Digits == <<"0", "1", "2", "3", "4", "5", "6", "7", "8", "9">>

LowerChar(ch) ==
  IF \E i \in 1..26 : UpperChars[i] = ch
  THEN LowerChars[CHOOSE i \in 1..26 : UpperChars[i] = ch]
  ELSE ch

\* String.prototype.toLowerCase
ToLowerCase(s) == [i \in 1..Len(s) |-> LowerChar(s[i])]

\* String.prototype.includes
Includes(s, sub) ==
  \E i \in 1..(Len(s) - Len(sub) + 1) : SubSeq(s, i, i + Len(sub) - 1) = sub

\* first index of character ch in s, 0 when absent
IndexOf(s, ch) ==
  IF \E i \in 1..Len(s) : s[i] = ch
  THEN CHOOSE i \in 1..Len(s) : s[i] = ch /\ \A j \in 1..(i - 1) : s[j] # ch
  ELSE 0

RECURSIVE Split(_, _)
\* String.prototype.split on a one-character separator
Split(s, ch) ==
  LET i == IndexOf(s, ch)
  IN  IF i = 0 THEN <<s>>
      ELSE <<SubSeq(s, 1, i - 1)>> \o Split(SubSeq(s, i + 1, Len(s)), ch)

RECURSIVE Join(_, _)
\* Array.prototype.join
Join(parts, sep) ==
  IF Len(parts) = 0 THEN <<>>
  ELSE IF Len(parts) = 1 THEN parts[1]
  ELSE parts[1] \o sep \o Join(Tail(parts), sep)

\* a ?? "" : only undefined (or null) is replaced
OrEmpty(s) == IF s = Undefined THEN <<>> ELSE s

\* JS truthiness of an optional string: undefined and "" are falsy
Truthy(s) == s # Undefined /\ s # <<>>

\* ------------------------------------------------- pure helpers of getCached

Str_namespace == <<"n", "a", "m", "e", "s", "p", "a", "c", "e">>
Str_locale == <<"l", "o", "c", "a", "l", "e">>
Str_maxage == <<"m", "a", "x", "-", "a", "g", "e", "=">>
Str_slash_classic == <<"/", "c", "l", "a", "s", "s", "i", "c">>
Str_profile_classic == <<"p", "r", "o", "f", "i", "l", "e", "-", "c", "l", "a", "s", "s", "i", "c">>
Str_GET == <<"G", "E", "T">>

\* the query string of a URL (after the first "?"), <<>> when there is none
QueryOf(url) ==
  LET i == IndexOf(url, "?")
  IN  IF i = 0 THEN <<>> ELSE SubSeq(url, i + 1, Len(url))

\* the name of one "name=value" piece of a query string
ParamName(piece) ==
  LET i == IndexOf(piece, "=")
  IN  IF i = 0 THEN piece ELSE SubSeq(piece, 1, i - 1)

\* a slip: no parameter is ever found
SearchParamsHasNothing(url, name) == FALSE

\* URLSearchParams.has
SearchParamsHas(url, name) ==
  LET pieces == Split(QueryOf(url), "&")
  IN  \E i \in 1..Len(pieces) : pieces[i] # <<>> /\ ParamName(pieces[i]) = name

\* application/x-www-form-urlencoded serialisation of one character
EncodeChar(ch) ==
  CASE ch = " " -> <<"+">>
    [] ch = "&" -> <<"%", "2", "6">>
    [] ch = "=" -> <<"%", "3", "D">>
    [] ch = "?" -> <<"%", "3", "F">>
    [] ch = ":" -> <<"%", "3", "A">>
    [] ch = "/" -> <<"%", "2", "F">>
    [] OTHER -> <<ch>>

RECURSIVE UrlEncode(_)
UrlEncode(s) == IF s = <<>> THEN <<>> ELSE EncodeChar(Head(s)) \o UrlEncode(Tail(s))

\* URLSearchParams.set of a name the URL does not carry, then URL.toString
SearchParamsAppend(url, name, value) ==
  url \o (IF IndexOf(url, "?") = 0 THEN <<"?">>
          ELSE IF QueryOf(url) = <<>> THEN <<>> ELSE <<"&">>)
      \o name \o <<"=">> \o UrlEncode(value)

withQueryParams(url, namespace, locale) ==
  LET t1 == IF Truthy(namespace) /\ ~SearchParamsHas(url, Str_namespace)
            THEN SearchParamsAppend(url, Str_namespace, namespace)
            ELSE url
      t2 == IF Truthy(locale) /\ ~SearchParamsHas(t1, Str_locale)
            THEN SearchParamsAppend(t1, Str_locale, locale)
            ELSE t1
  IN  t2

buildCacheKey(method, url, namespace, locale, tokenUserId) ==
  Join(<<method, url, OrEmpty(namespace), OrEmpty(locale), OrEmpty(tokenUserId)>>,
       <<":", ":">>)

isClassicEndpoint(url, namespace) ==
  LET lowered == ToLowerCase(url)
  IN  IF namespace # Undefined /\ Includes(ToLowerCase(namespace), CLASSIC_NAMESPACE_HINT)
      THEN TRUE
      ELSE Includes(lowered, Str_slash_classic) \/ Includes(lowered, Str_profile_classic)

IsDigit(ch) == \E i \in 1..10 : Digits[i] = ch
DigitValue(ch) == (CHOOSE i \in 1..10 : Digits[i] = ch) - 1

RECURSIVE ParseDigits(_, _)
\* Number.parseInt of the leading digits of s, acc the value read so far
ParseDigits(s, acc) ==
  IF s = <<>> \/ ~IsDigit(Head(s)) THEN acc
  ELSE ParseDigits(Tail(s), acc * 10 + DigitValue(Head(s)))

\* the positions where /max-age=(\d+)/i matches
MaxAgeMatches(cc) ==
  {i \in 1..Len(cc) :
     /\ i + Len(Str_maxage) <= Len(cc)
     /\ ToLowerCase(SubSeq(cc, i, i + Len(Str_maxage) - 1)) = Str_maxage
     /\ IsDigit(cc[i + Len(Str_maxage)])}

\* a slip: the header is not consulted
resolveTtlIgnoresHeader(cacheControl, defaultTtl) == defaultTtl

\* headers: the value of the cache-control header, Undefined when absent
resolveTtl(cacheControl, defaultTtl) ==
  IF ~Truthy(cacheControl) THEN defaultTtl
  ELSE IF MaxAgeMatches(cacheControl) # {}
       THEN LET i == CHOOSE m \in MaxAgeMatches(cacheControl) :
                       \A n \in MaxAgeMatches(cacheControl) : m <= n
            IN  ParseDigits(SubSeq(cacheControl, i + Len(Str_maxage), Len(cacheControl)), 0)
       ELSE defaultTtl

\* Response.ok
ResponseOk(status) == status >= 200 /\ status <= 299

\* ------------------------------------------------------------ the cache

\* a cached value: a parsed JSON payload, or null (the negative marker)
Null == "null"
\* CacheEntry | undefined: NoEntry stands for undefined
NoEntry == [value |-> "<undefined>", expiresAt |-> 0]
CacheEntry(value, expiresAt) == [value |-> value, expiresAt |-> expiresAt]

\* a Map<string, CacheEntry> without its order: a function on the keys it holds
EmptyMap == [k \in {} |-> NoEntry]
MapGet(m, key) == IF key \in DOMAIN m THEN m[key] ELSE NoEntry
\* a slip: the entry of a key the map holds is kept
MapSetIfAbsent(m, key, entry) ==
  [k \in (DOMAIN m) \cup {key} |-> IF k \in DOMAIN m THEN m[k] ELSE entry]
MapSet(m, key, entry) == [k \in (DOMAIN m) \cup {key} |-> IF k = key THEN entry ELSE m[k]]
MapDelete(m, key) == [k \in (DOMAIN m) \ {key} |-> m[k]]

\* class LruCache: map is the Map in insertion order, oldest first
NewLruCache(maxEntries) == [maxEntries |-> maxEntries, map |-> <<>>]
LruIndex(map, key) == IndexOf([i \in 1..Len(map) |-> map[i].key], key)
LruRemoveAt(map, i) == SubSeq(map, 1, i - 1) \o SubSeq(map, i + 1, Len(map))

\* a slip: a get does not move the key to the end
LruGetInPlace(cache, key) ==
  LET i == LruIndex(cache.map, key)
  IN  IF i = 0 THEN [cache |-> cache, entry |-> NoEntry]
      ELSE [cache |-> cache, entry |-> cache.map[i].entry]

\* LruCache.get: [cache, entry]
LruGet(cache, key) ==
  LET i == LruIndex(cache.map, key)
  IN  IF i = 0 THEN [cache |-> cache, entry |-> NoEntry]
      ELSE [cache |-> [cache EXCEPT !.map = Append(LruRemoveAt(cache.map, i), cache.map[i])],
            entry |-> cache.map[i].entry]

\* LruCache.set
LruSet(cache, key, entry) ==
  LET i == LruIndex(cache.map, key)
      removed == IF i # 0 THEN LruRemoveAt(cache.map, i) ELSE cache.map
      added == Append(removed, [key |-> key, entry |-> entry])
  IN  IF Len(added) > cache.maxEntries /\ added[1].key # <<>>
      THEN [cache EXCEPT !.map = Tail(added)]
      ELSE [cache EXCEPT !.map = added]

\* the snapshot file: absent, a JSON mapping, bytes that do not parse, or a
\* JSON array (data: its elements)
NoFile == [kind |-> "absent", data |-> EmptyMap]
CorruptFile == [kind |-> "corrupt", data |-> EmptyMap]
ArrayFile(elements) == [kind |-> "array", data |-> elements]
\* a slip: no entry of the parsed file is taken
ObjectEntriesNone(file) == EmptyMap

\* Object.entries of the parsed file: of an array, its elements under their
\* indices "0", "1", ... as keys
ObjectEntries(file) ==
  IF file.kind = "json" THEN file.data
  ELSE [k \in {<<Digits[i]>> : i \in 1..Len(file.data)} |->
          file.data[CHOOSE i \in 1..Len(file.data) : <<Digits[i]>> = k]]
\* JSON.stringify of the mapping key -> {value, expiresAt}
JsonStringify(payload) ==
  [kind |-> "json",
   data |-> [k \in DOMAIN payload |->
               [value |-> payload[k].value, expiresAt |-> payload[k].expiresAt]]]

\* The cache's state as one record cs = [mem, disk, loaded, file]:
\* memoryCache, persistentCache, persistentLoaded, the file CACHE_FILE.

\* a slip: the file is never read
loadPersistentCacheSkipsFile(cs) == [cs EXCEPT !.loaded = TRUE]

loadPersistentCache(cs) ==
  IF cs.loaded THEN cs
  ELSE IF cs.file.kind = "absent" THEN [cs EXCEPT !.loaded = TRUE]
  ELSE IF cs.file.kind \in {"json", "array"}
       THEN LET parsed == ObjectEntries(cs.file)
            IN  [cs EXCEPT !.loaded = TRUE,
                           !.disk = [k \in (DOMAIN cs.disk) \cup (DOMAIN parsed) |->
                                       IF k \in DOMAIN parsed THEN parsed[k]
                                       ELSE cs.disk[k]]]
       ELSE [cs EXCEPT !.loaded = TRUE, !.disk = EmptyMap]

\* a slip: the payload starts from the file's mapping instead of {}
savePersistentCacheMerging(cs) ==
  [cs EXCEPT !.file = JsonStringify(
     [k \in (DOMAIN cs.disk) \cup (IF cs.file.kind = "json" THEN DOMAIN cs.file.data ELSE {}) |->
        IF k \in DOMAIN cs.disk THEN cs.disk[k] ELSE cs.file.data[k]])]

savePersistentCache(cs) == [cs EXCEPT !.file = JsonStringify(cs.disk)]

\* a slip: expiresAt >= now
FreshInclusive(entry, t) == entry # NoEntry /\ entry.expiresAt >= t

\* memoryEntry && memoryEntry.expiresAt > now
Fresh(entry, t) == entry # NoEntry /\ entry.expiresAt > t

\* a slip: the disk tier's entry is returned without being promoted
getCacheEntryNoPromotion(cs, cacheKey, t) ==
  LET m == LruGet(cs.mem, cacheKey)
      cs1 == [cs EXCEPT !.mem = m.cache]
      cs2 == loadPersistentCache(cs1)
      persisted == MapGet(cs2.disk, cacheKey)
  IN  IF Fresh(m.entry, t) THEN [cs |-> cs1, entry |-> m.entry]
      ELSE IF Fresh(persisted, t) THEN [cs |-> cs2, entry |-> persisted]
      ELSE IF persisted # NoEntry
           THEN [cs |-> savePersistentCache([cs2 EXCEPT !.disk = MapDelete(cs2.disk, cacheKey)]),
                 entry |-> NoEntry]
      ELSE [cs |-> cs2, entry |-> NoEntry]

\* getCacheEntry at Date.now() = t: [cs, entry]
getCacheEntry(cs, cacheKey, t) ==
  LET m == LruGet(cs.mem, cacheKey)
      cs1 == [cs EXCEPT !.mem = m.cache]
      cs2 == loadPersistentCache(cs1)
      persisted == MapGet(cs2.disk, cacheKey)
  IN  IF Fresh(m.entry, t) THEN [cs |-> cs1, entry |-> m.entry]
      ELSE IF Fresh(persisted, t)
           THEN [cs |-> [cs2 EXCEPT !.mem = LruSet(cs2.mem, cacheKey, persisted)],
                 entry |-> persisted]
      ELSE IF persisted # NoEntry
           THEN [cs |-> savePersistentCache([cs2 EXCEPT !.disk = MapDelete(cs2.disk, cacheKey)]),
                 entry |-> NoEntry]
      ELSE [cs |-> cs2, entry |-> NoEntry]

\* a slip: the snapshot file is not rewritten
setCacheEntryNoSave(cs, cacheKey, value, ttlSeconds, t) ==
  LET entry == CacheEntry(value, t + ttlSeconds * 1000)
  IN  [cs EXCEPT !.mem = LruSet(cs.mem, cacheKey, entry),
                 !.disk = MapSet(cs.disk, cacheKey, entry)]

\* setCacheEntry at Date.now() = t
setCacheEntry(cs, cacheKey, value, ttlSeconds, t) ==
  LET entry == CacheEntry(value, t + ttlSeconds * 1000)
  IN  savePersistentCache([cs EXCEPT !.mem = LruSet(cs.mem, cacheKey, entry),
                                     !.disk = MapSet(cs.disk, cacheKey, entry)])

\* --------------------------------------------------------- token buckets

\* createTokenBucket with one token more than the capacity
createTokenBucketOverfull(ratePerSecond, t) ==
  [capacity |-> ratePerSecond,
   tokens |-> (ratePerSecond + 1) * TOKEN_SCALE,
   lastRefill |-> t,
   refillRate |-> ratePerSecond]

createTokenBucket(ratePerSecond, t) ==
  [capacity |-> ratePerSecond,
   tokens |-> ratePerSecond * TOKEN_SCALE,
   lastRefill |-> t,
   refillRate |-> ratePerSecond]

Min(a, b) == IF a <= b THEN a ELSE b

\* a slip: the bucket is never refilled
refillBucketNever(bucket, t) == bucket

\* refillBucket at Date.now() = t
refillBucket(bucket, t) ==
  LET elapsedMs == t - bucket.lastRefill
  IN  IF elapsedMs <= 0 THEN bucket
      ELSE [bucket EXCEPT
              !.tokens = Min(bucket.capacity * TOKEN_SCALE,
                             bucket.tokens + elapsedMs * bucket.refillRate),
              !.lastRefill = t]

\* smallest whole number of milliseconds not below a / b
CeilDiv(a, b) == (a + b - 1) \div b

\* waitForToken's turn with the token test passing at an empty bucket
waitForTokenTurnFromZero(bucket, t, jitter) ==
  LET b == refillBucket(bucket, t)
  IN  IF b.tokens >= 0
      THEN [bucket |-> [b EXCEPT !.tokens = b.tokens - TOKEN_SCALE],
            granted |-> TRUE, sleepMs |-> jitter]
      ELSE [bucket |-> b, granted |-> FALSE,
            sleepMs |-> CeilDiv(TOKEN_SCALE - b.tokens, b.refillRate) + jitter]

\* One turn of waitForToken's loop at Date.now() = t with Math.random() *
\* JITTER_MS = jitter: the bucket afterwards, whether the token was taken, and
\* the sleep that follows.
waitForTokenTurn(bucket, t, jitter) ==
  LET b == refillBucket(bucket, t)
  IN  IF b.tokens >= TOKEN_SCALE
      THEN [bucket |-> [b EXCEPT !.tokens = b.tokens - TOKEN_SCALE],
            granted |-> TRUE, sleepMs |-> jitter]
      ELSE [bucket |-> b, granted |-> FALSE,
            sleepMs |-> CeilDiv(TOKEN_SCALE - b.tokens, b.refillRate) + jitter]

\* withJitter
withJitter(ms, jitter) == ms + jitter

\* ---------------------------------------------------------------- inputs

\* URLs and option values of the requests the calls draw from
UrlPlain == <<"h", "t", "t", "p", ":", "/", "/", "a", "/", "w">>
UrlLegacy == <<"h", "t", "t", "p", ":", "/", "/", "a", "/", "C", "l", "a", "s", "s", "i", "c">>
NsLegacy == <<"d", "-", "C", "L", "A", "S", "S", "I", "C">>
NsRetail == <<"d", "-", "u", "s">>
User1 == <<"u", "1">>
Str_global == <<"g", "l", "o", "b", "a", "l">>

Request(url, ttlSeconds, namespace, locale, tokenUserId, accessToken) ==
  [url |-> url, ttlSeconds |-> ttlSeconds, method |-> Str_GET, namespace |-> namespace,
   locale |-> locale, tokenUserId |-> tokenUserId, accessToken |-> accessToken]

\* a non-legacy request, a request legacy by its URL, one legacy by its namespace
Requests ==
  { Request(UrlPlain, 1, NsRetail, Undefined, User1, "t1"),
    Request(UrlLegacy, 1, Undefined, Undefined, Undefined, "t1"),
    Request(UrlPlain, 2, NsLegacy, Undefined, User1, "t1") }

\* what the network can answer: status, parsed body, cache-control header
Response(status, body, cacheControl) ==
  [status |-> status, body |-> body, cacheControl |-> cacheControl]
NoResponse == Response(0, "<none>", Undefined)
\* a body that response.json() cannot parse
Unparsable == "<unparsable>"
\* cache-control headers: one with a max-age, one without
CcMaxAge3 == <<"p", "u", "b", "l", "i", "c", ",", " ">> \o <<"M", "a", "x", "-", "A", "g", "e", "=", "3">>
CcNoStore == <<"n", "o", "-", "s", "t", "o", "r", "e">>
Responses ==
  { Response(200, "d1", Undefined),
    Response(200, Unparsable, Undefined),
    Response(200, "d2", CcMaxAge3),
    Response(200, "d1", CcNoStore),
    Response(403, "<none>", Undefined),
    Response(404, "<none>", Undefined),
    Response(429, "<none>", Undefined),
    Response(503, "<none>", Undefined),
    Response(400, "<none>", Undefined) }

\* Math.random() * JITTER_MS, in [0, JITTER_MS): its two extremes
JitterSet == {0, JITTER_MS - 1}

\* ----------------------------------------------------------------- state

VARIABLES
  now,               \* Date.now(), ms
  mono,              \* the timers' clock, ms
  memoryCache,       \* LruCache
  persistentCache,   \* Map key -> entry
  persistentLoaded,  \* boolean
  cacheFile,         \* the snapshot file CACHE_FILE
  globalBucket,      \* token bucket
  userBuckets,       \* Map tokenUserId -> token bucket
  call,              \* the getCached calls in flight, by call number
  made,              \* how many getCached calls were made so far
  \* the cache on its own (SpecCache)
  pending,           \* per key, the lookups that missed and may still store
  lastOp,            \* the last cache operation and what it returned
  written,           \* per key, the entry of the last set
  \* one token bucket on its own (SpecBucket, SpecBucketSkew)
  bucket,            \* the bucket
  waiter,            \* the waitForToken(bucket) calls, by number
  jumps,             \* wall-clock adjustments so far
  \* getCached's derivations on their own (SpecDerive)
  probe,             \* the options of a call and what is derived from them
  \* the memory tier's recency (SpecLru)
  recency            \* the keys touched in the memory tier, the last touched last

vars == <<now, mono, memoryCache, persistentCache, persistentLoaded, cacheFile,
          globalBucket, userBuckets, call, made, pending, lastOp, written,
          bucket, waiter, jumps, probe, recency>>

Calls == DOMAIN call
MaxTime == MaxSeconds * 1000

\* one waitForToken in flight: waiting for a refill ("wait"), holding its token
\* and sleeping the jitter ("granted"), or returned ("done")
Waiter(st, wake) == [st |-> st, wake |-> wake]
NoWaiter == Waiter("none", 0)

\* what a call gave its caller: a value, or a thrown error. name is the
\* error's class; status and endpointUnavailable are the fields of a
\* BlizzardApiError (0 and FALSE where the object has no such fields)
NoResult ==
  [kind |-> "none", name |-> "<none>", value |-> "<none>", status |-> 0,
   endpointUnavailable |-> FALSE]
Returned(value) ==
  [kind |-> "value", name |-> "<none>", value |-> value, status |-> 0,
   endpointUnavailable |-> FALSE]
BlizzardApiError(status, endpointUnavailable) ==
  [kind |-> "error", name |-> "BlizzardApiError", value |-> "<none>", status |-> status,
   endpointUnavailable |-> endpointUnavailable]
\* the SyntaxError that response.json() rejects with
SyntaxError ==
  [kind |-> "error", name |-> "SyntaxError", value |-> "<none>", status |-> 0,
   endpointUnavailable |-> FALSE]
\* the TypeError that fetch rejects with when the network fails
TypeError ==
  [kind |-> "error", name |-> "TypeError", value |-> "<none>", status |-> 0,
   endpointUnavailable |-> FALSE]

IdleCall ==
  [pc |-> "idle", req |-> Request(<<>>, 0, Undefined, Undefined, Undefined, "t1"),
   finalUrl |-> <<>>, cacheKey |-> <<>>,
   gw |-> NoWaiter, uw |-> NoWaiter, gDebits |-> 0, uDebits |-> 0,
   attempt |-> 0, backoff |-> 0, inLoop |-> TRUE, wake |-> 0, sleepMs |-> 0,
   sent |-> 0, waited |-> 0, lastStatus |-> 0,
   response |-> NoResponse, result |-> NoResult]

CS == [mem |-> memoryCache, disk |-> persistentCache, loaded |-> persistentLoaded,
       file |-> cacheFile]
SetCS(cs) ==
  /\ memoryCache' = cs.mem
  /\ persistentCache' = cs.disk
  /\ persistentLoaded' = cs.loaded
  /\ cacheFile' = cs.file
cacheVars == <<memoryCache, persistentCache, persistentLoaded, cacheFile>>
cacheOpVars == <<pending, lastOp, written>>
bucketOpVars == <<bucket, waiter, jumps>>
bucketVars == <<globalBucket, userBuckets>>
clockVars == <<now, mono>>

\* the cache key of a request, as getCached derives it
KeyOf(req) ==
  buildCacheKey(req.method, withQueryParams(req.url, req.namespace, req.locale),
                req.namespace, req.locale, req.tokenUserId)
\* the keys the cache-only runs use: a caller's and the anonymous caller's
CacheKeys == {KeyOf(req) : req \in {r \in Requests : r.ttlSeconds = 1}}

\* kind: "get" or "set"; at: Date.now(); entry: what get returned, what set
\* stored; mem, disk: whether the tier held an entry for the key before a get;
\* loaded: persistentLoaded before the operation
NoOp == [kind |-> "none", key |-> <<>>, at |-> 0, entry |-> NoEntry,
         mem |-> FALSE, disk |-> FALSE, loaded |-> FALSE]

\* a derivation not made yet
NotRun == <<"<not run>">>
Probe(url, namespace, locale, tokenUserId) ==
  [url |-> url, namespace |-> namespace, locale |-> locale, tokenUserId |-> tokenUserId,
   finalUrl |-> NotRun, again |-> NotRun,
   cacheKey |-> NotRun, bucketId |-> NotRun,
   cacheKeyAbsent |-> NotRun, bucketIdAbsent |-> NotRun,
   other |-> [url |-> <<>>, namespace |-> Undefined, locale |-> Undefined,
             tokenUserId |-> Undefined],
   otherFinalUrl |-> NotRun, otherKey |-> NotRun]
NoProbe == Probe(<<>>, Undefined, Undefined, Undefined)

InitCacheOps ==
  /\ probe = NoProbe
  /\ recency = <<>>
  /\ pending = [k \in CacheKeys |-> 0]
  /\ lastOp = NoOp
  /\ written = [k \in CacheKeys |-> NoEntry]

\* a waitForToken(bucket) call: its state and timer as a Waiter, the
\* Date.now() of its call and of the turn that took its token
NotYet == 0 - 1
Waiters == 1..(GLOBAL_RPS + ExtraWaiters)
IdleWaiter == [st |-> "idle", wake |-> 0, issuedAt |-> NotYet, grantedAt |-> NotYet]

InitBucketOps ==
  /\ bucket = createTokenBucket(GLOBAL_RPS, 0)
  /\ waiter = [a \in Waiters |-> IdleWaiter]
  /\ jumps = 0

Init ==
  /\ InitCacheOps
  /\ InitBucketOps
  /\ now = 0
  /\ mono = 0
  /\ memoryCache = NewLruCache(DEFAULT_MAX_LRU_ENTRIES)
  /\ persistentCache = EmptyMap
  /\ persistentLoaded = FALSE
  /\ cacheFile = NoFile
  /\ globalBucket = createTokenBucket(GLOBAL_RPS, 0)
  /\ userBuckets = EmptyMap
  /\ call = [c \in 1..NCalls |-> IdleCall]
  /\ made = 0

\* ------------------------------------------------------------- getCached

\* a slip: if (cached && cached.value), which takes the negative entry for a miss
CacheHitTruthyValue(entry) == entry # NoEntry /\ entry.value # Null

\* if (cached) return cached.value
CacheHit(entry) == entry # NoEntry

\* getUserBucket at Date.now() = t: the registry afterwards
getUserBucket(buckets, tokenUserId, t) ==
  IF tokenUserId \in DOMAIN buckets THEN buckets
  ELSE [u \in (DOMAIN buckets) \cup {tokenUserId} |->
          IF u = tokenUserId THEN createTokenBucket(PER_USER_RPS, t) ELSE buckets[u]]

\* a slip: one bucket for every caller
BucketIdShared(req) == Str_global

\* tokenUserId ?? "global"
BucketId(req) == IF req.tokenUserId = Undefined THEN Str_global ELSE req.tokenUserId

\* fetchWithRetry at the top of its loop: the next attempt is sent while
\* attempt < MAX_RETRIES, and otherwise the fetch after the loop
SendAttempt(cl) ==
  IF cl.attempt < MAX_RETRIES
  THEN [cl EXCEPT !.pc = "fetch", !.attempt = cl.attempt + 1, !.sent = cl.sent + 1,
                  !.wake = 0, !.sleepMs = 0]
  ELSE [cl EXCEPT !.pc = "fetch", !.inLoop = FALSE, !.sent = cl.sent + 1,
                  !.wake = 0, !.sleepMs = 0]

\* fetchWithRetry up to its first await
StartFetch(cl) ==
  SendAttempt([cl EXCEPT !.attempt = 0, !.backoff = BACKOFF_BASE_MS,
                         !.gw = NoWaiter, !.uw = NoWaiter])

\* getCached is over: its locals are gone, what the caller got stays
Finish(cl, pc, result) ==
  [cl EXCEPT !.pc = pc, !.result = result, !.gw = NoWaiter, !.uw = NoWaiter,
             !.attempt = 0, !.backoff = 0, !.inLoop = TRUE, !.wake = 0, !.sleepMs = 0,
             !.response = NoResponse]

\* a slip: the access token is part of the key's caller identity
CacheKeyForWithToken(req, finalUrl) ==
  buildCacheKey(req.method, finalUrl, req.namespace, req.locale,
                OrEmpty(req.tokenUserId) \o <<req.accessToken>>)

\* cacheKey = buildCacheKey(method, finalUrl, namespace, locale, tokenUserId):
\* accessToken and headers are no part of it
CacheKeyFor(req, finalUrl) ==
  buildCacheKey(req.method, finalUrl, req.namespace, req.locale, req.tokenUserId)

\* getCached from its call to its first await (or its return on a cache hit):
\* the cache lookup, then throttle: both waitForToken calls run their first
\* turn, the global bucket's first. A call takes the lowest free call number.
GetCached(c, req, jg, ju) ==
  /\ call[c].pc = "idle"
  /\ \A d \in 1..(c - 1) : call[d].pc # "idle"
  /\ made' = made + 1
  /\ LET finalUrl == withQueryParams(req.url, req.namespace, req.locale)
         cacheKey == CacheKeyFor(req, finalUrl)
         got == getCacheEntry(CS, cacheKey, now)
         started == [call[c] EXCEPT !.req = req, !.finalUrl = finalUrl,
                                    !.cacheKey = cacheKey]
         id == BucketId(req)
         registry == getUserBucket(userBuckets, id, now)
         g == waitForTokenTurn(globalBucket, now, jg)
         u == waitForTokenTurn(registry[id], now, ju)
     IN  /\ SetCS(got.cs)
         /\ IF CacheHit(got.entry)
            THEN /\ call' = [call EXCEPT ![c] =
                       Finish(started, "returned", Returned(got.entry.value))]
                 /\ UNCHANGED bucketVars
            ELSE /\ globalBucket' = g.bucket
                 /\ userBuckets' = [registry EXCEPT ![id] = u.bucket]
                 /\ call' = [call EXCEPT ![c] =
                       [started EXCEPT
                          !.pc = "throttle",
                          !.gw = Waiter(IF g.granted THEN "granted" ELSE "wait",
                                        mono + g.sleepMs),
                          !.uw = Waiter(IF u.granted THEN "granted" ELSE "wait",
                                        mono + u.sleepMs),
                          !.gDebits = IF g.granted THEN 1 ELSE 0,
                          !.uDebits = IF u.granted THEN 1 ELSE 0]]
  /\ UNCHANGED clockVars

\* a variant: the cache is looked up again once the tokens are held
AfterThrottleRecheck(cl) ==
  IF cl.gw.st = "done" /\ cl.uw.st = "done"
  THEN IF CacheHit(getCacheEntry(CS, cl.cacheKey, now).entry)
       THEN Finish(cl, "returned", Returned(getCacheEntry(CS, cl.cacheKey, now).entry.value))
       ELSE StartFetch(cl)
  ELSE cl

\* a slip: Promise.race for Promise.all
AfterThrottleRace(cl) ==
  IF cl.gw.st = "done" \/ cl.uw.st = "done" THEN StartFetch(cl) ELSE cl

\* Promise.all of throttle resolved: getCached goes on to fetchWithRetry
AfterThrottle(cl) ==
  IF cl.gw.st = "done" /\ cl.uw.st = "done" THEN StartFetch(cl) ELSE cl

\* the sleep of waitForToken(globalBucket) of call c ends
WakeGlobal(c, jitter) ==
  /\ call[c].pc = "throttle"
  /\ call[c].gw.st \in {"wait", "granted"}
  /\ mono >= call[c].gw.wake
  /\ IF call[c].gw.st = "granted"
     THEN /\ jitter = 0
          /\ call' = [call EXCEPT ![c] = AfterThrottle([@ EXCEPT !.gw.st = "done"])]
          /\ UNCHANGED globalBucket
     ELSE LET g == waitForTokenTurn(globalBucket, now, jitter)
          IN  /\ globalBucket' = g.bucket
              /\ call' = [call EXCEPT
                    ![c].gw = Waiter(IF g.granted THEN "granted" ELSE "wait",
                                     mono + g.sleepMs),
                    ![c].gDebits = IF g.granted THEN @ + 1 ELSE @]
  /\ UNCHANGED <<clockVars, cacheVars, userBuckets, made>>

\* the sleep of waitForToken(bucket) of call c, on its caller's bucket, ends
WakeUser(c, jitter) ==
  /\ call[c].pc = "throttle"
  /\ call[c].uw.st \in {"wait", "granted"}
  /\ mono >= call[c].uw.wake
  /\ IF call[c].uw.st = "granted"
     THEN /\ jitter = 0
          /\ call' = [call EXCEPT ![c] = AfterThrottle([@ EXCEPT !.uw.st = "done"])]
          /\ UNCHANGED userBuckets
     ELSE LET id == BucketId(call[c].req)
              u == waitForTokenTurn(userBuckets[id], now, jitter)
          IN  /\ userBuckets' = [userBuckets EXCEPT ![id] = u.bucket]
              /\ call' = [call EXCEPT
                    ![c].uw = Waiter(IF u.granted THEN "granted" ELSE "wait",
                                     mono + u.sleepMs),
                    ![c].uDebits = IF u.granted THEN @ + 1 ELSE @]
  /\ UNCHANGED <<clockVars, cacheVars, globalBucket, made>>

\* a slip: 404 is retried like 429
RetryableWith404(status) ==
  status = 429 \/ status = 404 \/ (status >= 500 /\ status <= 599)

\* response.status === 429, or 500..599
Retryable(status) == status = 429 \/ (status >= 500 /\ status <= 599)

\* a slip: attempt > MAX_RETRIES for attempt >= MAX_RETRIES
RetryAgainOffByOne(status, attempt) == Retryable(status) /\ ~(attempt > MAX_RETRIES)

\* fetchWithRetry's verdict on a response to attempt number `attempt`:
\* TRUE to sleep and send again, FALSE to return the response
RetryAgain(status, attempt) == Retryable(status) /\ ~(attempt >= MAX_RETRIES)

\* a slip: the classifier is not consulted
EndpointUnavailableAnyUrl(status, finalUrl, namespace) == status = 403 \/ status = 404

\* getCached's classification of a response that is not ok
EndpointUnavailable(status, finalUrl, namespace) ==
  (status = 403 \/ status = 404) /\ isClassicEndpoint(finalUrl, namespace)

\* a slip: the backoff grows by the base instead of doubling
NextBackoffLinear(backoff) == Min(backoff + BACKOFF_BASE_MS, MAX_BACKOFF_MS)

\* backoff = Math.min(backoff * 2, MAX_BACKOFF_MS)
NextBackoff(backoff) == Min(backoff * 2, MAX_BACKOFF_MS)

\* ttl of the negative entry
NegativeTtl(ttlSeconds) == ttlSeconds * 2

\* The network answers attempt `attempt` of call c. fetchWithRetry either
\* sleeps the backoff, or returns the response to getCached, which throws on
\* a response that is not ok (after caching the negative entry) and otherwise
\* awaits the body.
Respond(c, resp, jitter) ==
  /\ call[c].pc = "fetch"
  /\ LET cl == [call[c] EXCEPT !.lastStatus = resp.status]
     IN  IF cl.inLoop /\ RetryAgain(resp.status, cl.attempt)
         THEN /\ call' = [call EXCEPT ![c] =
                    [cl EXCEPT !.pc = "backoff",
                               !.wake = mono + withJitter(cl.backoff, jitter),
                               !.sleepMs = withJitter(cl.backoff, jitter),
                               !.waited = @ + withJitter(cl.backoff, jitter),
                               !.backoff = NextBackoff(cl.backoff)]]
              /\ UNCHANGED cacheVars
         ELSE /\ jitter = 0
              /\ IF ~ResponseOk(resp.status)
                 THEN LET unavailable == EndpointUnavailable(resp.status, cl.finalUrl,
                                                             cl.req.namespace)
                      IN  /\ IF unavailable
                             THEN SetCS(setCacheEntry(CS, cl.cacheKey, Null,
                                                      NegativeTtl(cl.req.ttlSeconds), now))
                             ELSE UNCHANGED cacheVars
                          /\ call' = [call EXCEPT ![c] =
                                Finish(cl, "thrown",
                                       BlizzardApiError(resp.status, unavailable))]
                 ELSE /\ call' = [call EXCEPT ![c] =
                            [cl EXCEPT !.pc = "json", !.response = resp]]
                      /\ UNCHANGED cacheVars
  /\ UNCHANGED <<clockVars, bucketVars, made>>

\* the backoff sleep of fetchWithRetry ends: `continue`
BackoffWake(c) ==
  /\ call[c].pc = "backoff"
  /\ mono >= call[c].wake
  /\ call' = [call EXCEPT ![c] = SendAttempt(@)]
  /\ UNCHANGED <<clockVars, cacheVars, bucketVars, made>>

\* response.json() settles: it rejects on a body it cannot parse, and
\* getCached with it; otherwise the value is cached and returned
JsonDone(c) ==
  /\ call[c].pc = "json"
  /\ LET cl == call[c]
         data == cl.response.body
         responseTtl == resolveTtl(cl.response.cacheControl, cl.req.ttlSeconds)
     IN  IF data = Unparsable
         THEN /\ call' = [call EXCEPT ![c] = Finish(cl, "thrown", SyntaxError)]
              /\ UNCHANGED cacheVars
         ELSE /\ SetCS(setCacheEntry(CS, cl.cacheKey, data, responseTtl, now))
              /\ call' = [call EXCEPT ![c] = Finish(cl, "returned", Returned(data))]
  /\ UNCHANGED <<clockVars, bucketVars, made>>

\* ---------------------------------------------------------------- clocks

\* the timers that are set and have not fired: their deadlines
TimerDeadlines ==
  {call[c].gw.wake : c \in {d \in Calls : call[d].pc = "throttle"
                                         /\ call[d].gw.st \in {"wait", "granted"}}}
  \cup {call[c].uw.wake : c \in {d \in Calls : call[d].pc = "throttle"
                                              /\ call[d].uw.st \in {"wait", "granted"}}}
  \cup {call[c].wake : c \in {d \in Calls : call[d].pc = "backoff"}}

\* the wall-clock instants at which a cache entry expires
Expiries ==
  {memoryCache.map[i].entry.expiresAt : i \in 1..Len(memoryCache.map)}
  \cup {persistentCache[k].expiresAt : k \in DOMAIN persistentCache}

\* how far the clocks may step: to the next timer deadline or entry expiry
TickSteps ==
  LET ahead == {t - mono : t \in {d \in TimerDeadlines : d > mono}}
               \cup {t - now : t \in {e \in Expiries : e > now}}
  IN  {d \in ahead : \A e \in ahead : d <= e}

\* time passes, up to the instant `limit` of the timers' clock: both clocks
\* advance by the same amount
TickUpTo(limit) ==
  /\ \E d \in TickSteps :
       /\ mono + d <= limit
       /\ mono' = mono + d
       /\ now' = now + d
  /\ UNCHANGED <<cacheVars, bucketVars, call, made>>

Tick == TickUpTo(MaxTime)

\* the caller of call c has its value or its error: the call is over and its
\* number is free again
Settle(c) ==
  /\ call[c].pc \in {"returned", "thrown"}
  /\ call' = [call EXCEPT ![c] = IdleCall]
  /\ UNCHANGED <<clockVars, cacheVars, bucketVars, made>>

\* no getCached call is between its start and its end
NoCallInFlight == \A c \in Calls : call[c].pc = "idle"

\* One caller, who awaits each getCached before making the next call (the
\* route handlers' `await safeFetch(...)` in sequence).
Next ==
  /\ \/ \E c \in Calls, req \in Requests, jg \in JitterSet, ju \in JitterSet :
          NoCallInFlight /\ made < MaxCalls /\ GetCached(c, req, jg, ju)
     \/ \E c \in Calls, jitter \in JitterSet : WakeGlobal(c, jitter)
     \/ \E c \in Calls, jitter \in JitterSet : WakeUser(c, jitter)
     \/ \E c \in Calls, resp \in Responses, jitter \in JitterSet : Respond(c, resp, jitter)
     \/ \E c \in Calls : BackoffWake(c)
     \/ \E c \in Calls : JsonDone(c)
     \/ \E c \in Calls : Settle(c)
     \/ Tick
  /\ UNCHANGED <<cacheOpVars, bucketOpVars, probe, recency>>

Spec == Init /\ [][Next]_vars

\* --------------------------------------------------- concurrent callers
\*
\* Any number of getCached calls may be in flight together (parallel data
\* fetches, one request handler per HTTP request). SpecConc runs ConcCalls
\* calls with no order between them, on two requests of different callers
\* and on the answers 200 and 429.

ConcRequests == {r \in Requests : r.ttlSeconds = 1}
ConcResponses == {r \in Responses : r.status \in {200, 429} /\ r.body # Unparsable
                                     /\ r.cacheControl = Undefined}

InitConc ==
  /\ InitCacheOps
  /\ InitBucketOps
  /\ now = 0
  /\ mono = 0
  /\ memoryCache = NewLruCache(DEFAULT_MAX_LRU_ENTRIES)
  /\ persistentCache = EmptyMap
  /\ persistentLoaded = FALSE
  /\ cacheFile = NoFile
  /\ globalBucket = createTokenBucket(GLOBAL_RPS, 0)
  /\ userBuckets = EmptyMap
  /\ call = [c \in 1..ConcCalls |-> IdleCall]
  /\ made = 0

NextConc ==
  /\ \/ \E c \in Calls, req \in ConcRequests, jg \in JitterSet, ju \in JitterSet :
          made < ConcCalls /\ GetCached(c, req, jg, ju)
     \/ \E c \in Calls, jitter \in JitterSet : WakeGlobal(c, jitter)
     \/ \E c \in Calls, jitter \in JitterSet : WakeUser(c, jitter)
     \/ \E c \in Calls, resp \in ConcResponses : Respond(c, resp, 0)
     \/ \E c \in Calls : BackoffWake(c)
     \/ \E c \in Calls : JsonDone(c)
     \/ TickUpTo(MaxConcSeconds * 1000)
  /\ UNCHANGED <<cacheOpVars, bucketOpVars, probe, recency>>

SpecConc == InitConc /\ [][NextConc]_vars

\* ------------------------------------------------- calls run to their end
\*
\* SpecLive runs LiveCalls calls of one caller, made together at the start,
\* to their end: the timers fire when they are due, the network answers
\* every request (200 or 429) before the next timer is due, and the clock
\* advances.


InitLive ==
  /\ InitCacheOps
  /\ InitBucketOps
  /\ now = 0
  /\ mono = 0
  /\ memoryCache = NewLruCache(DEFAULT_MAX_LRU_ENTRIES)
  /\ persistentCache = EmptyMap
  /\ persistentLoaded = FALSE
  /\ cacheFile = NoFile
  /\ globalBucket = createTokenBucket(GLOBAL_RPS, 0)
  /\ userBuckets = EmptyMap
  /\ call = [c \in 1..LiveCalls |-> IdleCall]
  /\ made = 0

\* time passes once nothing is due: no timer of a call is due, and no call
\* awaits the network
LiveTick ==
  /\ \A c \in Calls :
       /\ call[c].pc = "throttle" =>
            /\ call[c].gw.st \in {"wait", "granted"} => mono < call[c].gw.wake
            /\ call[c].uw.st \in {"wait", "granted"} => mono < call[c].uw.wake
       /\ call[c].pc = "backoff" => mono < call[c].wake
       /\ call[c].pc \notin {"fetch", "json"}
  /\ TickUpTo(LiveSeconds * 1000)

\* what the calls leave alone
LiveFrame == UNCHANGED <<cacheOpVars, bucketOpVars, probe, recency>>

NextLive ==
  /\ \/ \E c \in Calls, req \in {r \in Requests : r.ttlSeconds = 1 /\ r.tokenUserId = User1},
             jg \in JitterSet, ju \in JitterSet :
          mono = 0 /\ made < LiveCalls /\ GetCached(c, req, jg, ju)
     \/ \E c \in Calls, jitter \in JitterSet : WakeGlobal(c, jitter)
     \/ \E c \in Calls, jitter \in JitterSet : WakeUser(c, jitter)
     \/ \E c \in Calls, resp \in ConcResponses : Respond(c, resp, 0)
     \/ \E c \in Calls : BackoffWake(c)
     \/ \E c \in Calls : JsonDone(c)
     \/ LiveTick
  /\ LiveFrame

\* every timer that is due fires, every request is answered, every body is
\* read, and time passes
FairLive ==
  /\ \A c \in 1..LiveCalls :
       /\ WF_vars((\E jitter \in JitterSet : WakeGlobal(c, jitter)) /\ LiveFrame)
       /\ WF_vars((\E jitter \in JitterSet : WakeUser(c, jitter)) /\ LiveFrame)
       /\ WF_vars((\E resp \in ConcResponses : Respond(c, resp, 0)) /\ LiveFrame)
       /\ WF_vars(BackoffWake(c) /\ LiveFrame)
       /\ WF_vars(JsonDone(c) /\ LiveFrame)
  /\ WF_vars(LiveTick /\ LiveFrame)

SpecLive == InitLive /\ [][NextLive]_vars /\ FairLive

\* ------------------------------------------------------ a failing network
\*
\* fetch rejects when no response arrives (connection refused, DNS failure,
\* abort). SpecNet is the one caller of Spec on a network that answers 200
\* or 429 or fails.

\* a slip: the rejection is caught and the request sent again
OnRejectRetry(cl) == SendAttempt(cl)

\* neither fetchWithRetry nor getCached catches: the rejection of `await
\* fetch(url, options)` is the rejection of getCached
OnReject(cl) == Finish(cl, "thrown", TypeError)

\* the request of call c fails at the network: there is no response, and no
\* status
Reject(c) ==
  /\ call[c].pc = "fetch"
  /\ call' = [call EXCEPT ![c] = OnReject([@ EXCEPT !.lastStatus = 0])]
  /\ UNCHANGED <<clockVars, cacheVars, bucketVars, made>>

NextNet ==
  /\ \/ \E c \in Calls, req \in Requests, jg \in JitterSet, ju \in JitterSet :
          NoCallInFlight /\ made < MaxCalls /\ GetCached(c, req, jg, ju)
     \/ \E c \in Calls, jitter \in JitterSet : WakeGlobal(c, jitter)
     \/ \E c \in Calls, jitter \in JitterSet : WakeUser(c, jitter)
     \/ \E c \in Calls, resp \in ConcResponses : Respond(c, resp, 0)
     \/ \E c \in Calls : Reject(c)
     \/ \E c \in Calls : BackoffWake(c)
     \/ \E c \in Calls : JsonDone(c)
     \/ \E c \in Calls : Settle(c)
     \/ Tick
  /\ UNCHANGED <<cacheOpVars, bucketOpVars, probe, recency>>

SpecNet == Init /\ [][NextNet]_vars

\* ------------------------------------------- two sessions, one identity
\*
\* The route handlers take accessToken from the session and tokenUserId from
\* the request header x-token-user-id, so calls with one tokenUserId can
\* carry different access tokens. SpecShare runs such calls one after the
\* other on an endpoint whose answer is the profile of the token's owner
\* (Authorization: Bearer accessToken).

\* the body the endpoint answers to a request with this access token
ProfileOf(accessToken) == IF accessToken = "t1" THEN "d1" ELSE "d2"

InitShare ==
  /\ InitCacheOps
  /\ InitBucketOps
  /\ now = 0
  /\ mono = 0
  /\ memoryCache = NewLruCache(DEFAULT_MAX_LRU_ENTRIES)
  /\ persistentCache = EmptyMap
  /\ persistentLoaded = FALSE
  /\ cacheFile = NoFile
  /\ globalBucket = createTokenBucket(GLOBAL_RPS, 0)
  /\ userBuckets = EmptyMap
  /\ call = [c \in 1..ShareCalls |-> IdleCall]
  /\ made = 0

NextShare ==
  /\ \/ \E c \in Calls, accessToken \in {"t1", "t2"}, jg \in JitterSet, ju \in JitterSet :
          /\ \A d \in Calls : call[d].pc \in {"idle", "returned", "thrown"}
          /\ GetCached(c, Request(UrlPlain, 1, NsRetail, Undefined, User1, accessToken), jg, ju)
     \/ \E c \in Calls, jitter \in JitterSet : WakeGlobal(c, jitter)
     \/ \E c \in Calls, jitter \in JitterSet : WakeUser(c, jitter)
     \* the network answers the profile of the token's owner, or 429
     \/ \E c \in Calls :
          \E resp \in {Response(200, ProfileOf(call[c].req.accessToken), Undefined),
                       Response(429, "<none>", Undefined)} : Respond(c, resp, 0)
     \/ \E c \in Calls : BackoffWake(c)
     \/ \E c \in Calls : JsonDone(c)
     \/ TickUpTo(ShareSeconds * 1000)
  /\ UNCHANGED <<cacheOpVars, bucketOpVars, probe, recency>>

SpecShare == InitShare /\ [][NextShare]_vars

\* ------------------------------------------------ the cache on its own
\*
\* getCached uses the cache in two places: the lookup at its start
\* (getCacheEntry) and the store at its end (setCacheEntry), with its awaits
\* in between. SpecCache runs these two operations alone, in any order the
\* calls in flight allow: a store follows a lookup of its key that missed.

\* the entry each tier holds for a key before a lookup
MemoryEntry(key) ==
  LET i == LruIndex(memoryCache.map, key)
  IN  IF i = 0 THEN NoEntry ELSE memoryCache.map[i].entry
DiskEntry(key) ==
  IF persistentLoaded THEN MapGet(persistentCache, key)
  ELSE IF cacheFile.kind \in {"json", "array"}
       THEN MapGet(ObjectEntries(cacheFile), key)
  ELSE NoEntry

RECURSIVE SumOver(_, _)
SumOver(f, keys) ==
  IF keys = {} THEN 0
  ELSE LET k == CHOOSE x \in keys : TRUE IN f[k] + SumOver(f, keys \ {k})

\* getCacheEntry(key), as the lookup of a getCached call
CacheGet(key) ==
  /\ LET got == getCacheEntry(CS, key, now)
     IN  /\ SetCS(got.cs)
         /\ lastOp' = [kind |-> "get", key |-> key, at |-> now, entry |-> got.entry,
                       mem |-> MemoryEntry(key) # NoEntry,
                       disk |-> DiskEntry(key) # NoEntry,
                       loaded |-> persistentLoaded]
         /\ pending' = IF ~CacheHit(got.entry) /\ SumOver(pending, DOMAIN pending) < NCalls
                       THEN [pending EXCEPT ![key] = @ + 1]
                       ELSE pending
  /\ UNCHANGED <<now, written>>

\* setCacheEntry(key, value, ttlSeconds), by a call whose lookup missed
CacheSet(key, value, ttlSeconds) ==
  /\ pending[key] > 0
  /\ SetCS(setCacheEntry(CS, key, value, ttlSeconds, now))
  /\ pending' = [pending EXCEPT ![key] = @ - 1]
  /\ written' = [written EXCEPT ![key] = CacheEntry(value, now + ttlSeconds * 1000)]
  /\ lastOp' = [kind |-> "set", key |-> key, at |-> now,
                entry |-> CacheEntry(value, now + ttlSeconds * 1000),
                mem |-> FALSE, disk |-> FALSE, loaded |-> persistentLoaded]
  /\ UNCHANGED now

\* a second passes
CacheTick ==
  /\ now + 1000 <= MaxCacheSeconds * 1000
  /\ now' = now + 1000
  /\ UNCHANGED <<cacheVars, cacheOpVars>>

\* the process restarts: the module's state is built anew, the file stays
Restart ==
  /\ memoryCache' = NewLruCache(memoryCache.maxEntries)
  /\ persistentCache' = EmptyMap
  /\ persistentLoaded' = FALSE
  /\ pending' = [k \in DOMAIN pending |-> 0]
  /\ lastOp' = NoOp
  /\ UNCHANGED <<now, cacheFile, written>>

\* what the process can find in place of its snapshot at its first start:
\* nothing, bytes that are not JSON, a JSON array of one entry
SnapshotFiles == {NoFile, CorruptFile, ArrayFile(<<CacheEntry("d1", MaxCacheSeconds * 1000)>>)}

InitCache ==
  /\ InitCacheOps
  /\ InitBucketOps
  /\ now = 0
  /\ mono = 0
  /\ memoryCache = NewLruCache(SmallLru)
  /\ persistentCache = EmptyMap
  /\ persistentLoaded = FALSE
  /\ cacheFile \in SnapshotFiles
  /\ globalBucket = createTokenBucket(GLOBAL_RPS, 0)
  /\ userBuckets = EmptyMap
  /\ call = [c \in 1..NCalls |-> IdleCall]
  /\ made = 0

NextCache ==
  /\ \/ \E key \in CacheKeys : CacheGet(key)
     \/ \E key \in CacheKeys, value \in {"d1", Null}, ttlSeconds \in {1, 2} :
          CacheSet(key, value, ttlSeconds)
     \/ CacheTick
     \/ Restart
  /\ UNCHANGED <<mono, bucketVars, call, made, bucketOpVars, probe, recency>>

SpecCache == InitCache /\ [][NextCache]_vars

\* --------------------------------------------- the memory tier's recency
\*
\* SpecLru runs the two cache operations on three keys and a memory tier of
\* LruEntries entries, and records the order in which the keys were touched
\* in the memory tier: by LruCache.set (of setCacheEntry, or of a lookup that
\* promotes the disk tier's entry) and by a LruCache.get that finds the key.

LruKeys == {KeyOf(req) : req \in Requests}

\* key becomes the last touched
Touch(order, key) == SelectSeq(order, LAMBDA k : k # key) \o <<key>>

\* getCacheEntry(key), which touches the key if the memory tier holds it or
\* the disk tier's entry is promoted
TouchingGet(key) ==
  /\ CacheGet(key)
  /\ recency' = IF MemoryEntry(key) # NoEntry \/ Fresh(DiskEntry(key), now)
                THEN Touch(recency, key)
                ELSE recency

\* setCacheEntry(key, value, ttlSeconds), which touches the key
TouchingSet(key, value, ttlSeconds) ==
  /\ CacheSet(key, value, ttlSeconds)
  /\ recency' = Touch(recency, key)

InitLru ==
  /\ probe = NoProbe
  /\ recency = <<>>
  /\ pending = [k \in LruKeys |-> 0]
  /\ lastOp = NoOp
  /\ written = [k \in LruKeys |-> NoEntry]
  /\ InitBucketOps
  /\ now = 0
  /\ mono = 0
  /\ memoryCache = NewLruCache(LruEntries)
  /\ persistentCache = EmptyMap
  /\ persistentLoaded = FALSE
  /\ cacheFile = NoFile
  /\ globalBucket = createTokenBucket(GLOBAL_RPS, 0)
  /\ userBuckets = EmptyMap
  /\ call = [c \in 1..NCalls |-> IdleCall]
  /\ made = 0

NextLru ==
  /\ \/ \E key \in LruKeys : TouchingGet(key)
     \/ \E key \in LruKeys, ttlSeconds \in {1, 2} : TouchingSet(key, "d1", ttlSeconds)
     \/ CacheTick /\ UNCHANGED recency
  /\ UNCHANGED <<mono, bucketVars, call, made, bucketOpVars, probe>>

SpecLru == InitLru /\ [][NextLru]_vars

\* ------------------------------------------- one token bucket on its own
\*
\* SpecBucket runs waitForToken calls on one bucket, the global one or a
\* per-caller one, concurrently; SpecBucketSkew adds adjustments of the wall
\* clock, which setTimeout does not follow.

\* waitForToken(bucket) is called: its first turn
Acquire(a, jitter) ==
  /\ a <= bucket.capacity + ExtraWaiters
  /\ waiter[a].st = "idle"
  /\ \A b \in 1..(a - 1) : waiter[b].st # "idle"
  /\ LET turn == waitForTokenTurn(bucket, now, jitter)
     IN  /\ bucket' = turn.bucket
         /\ waiter' = [waiter EXCEPT ![a] =
               [st |-> IF turn.granted THEN "granted" ELSE "wait",
                wake |-> mono + turn.sleepMs,
                issuedAt |-> now,
                grantedAt |-> IF turn.granted THEN now ELSE NotYet]]
  /\ UNCHANGED <<clockVars, jumps>>

\* the sleep of waiter a ends: it returns, or takes another turn
AcquireWake(a, jitter) ==
  /\ waiter[a].st \in {"wait", "granted"}
  /\ mono >= waiter[a].wake
  /\ IF waiter[a].st = "granted"
     THEN /\ jitter = 0
          /\ waiter' = [waiter EXCEPT ![a].st = "done", ![a].wake = 0]
          /\ UNCHANGED bucket
     ELSE LET turn == waitForTokenTurn(bucket, now, jitter)
          IN  /\ bucket' = turn.bucket
              /\ waiter' = [waiter EXCEPT
                    ![a].st = IF turn.granted THEN "granted" ELSE "wait",
                    ![a].wake = mono + turn.sleepMs,
                    ![a].grantedAt = IF turn.granted THEN now ELSE NotYet]
  /\ UNCHANGED <<clockVars, jumps>>

\* time passes, to the next deadline of a waiter's timer
BucketTick ==
  /\ LET ahead == {waiter[a].wake - mono :
                     a \in {b \in Waiters : /\ waiter[b].st \in {"wait", "granted"}
                                            /\ waiter[b].wake > mono}}
     IN  \E d \in ahead :
           /\ \A e \in ahead : d <= e
           /\ mono + d <= MaxBucketSeconds * 1000
           /\ mono' = mono + d
           /\ now' = now + d
  /\ UNCHANGED bucketOpVars

\* the wall clock is set: forwards or backwards, the timers' clock is not
ClockJump ==
  /\ jumps < MaxJumps
  /\ jumps' = jumps + 1
  /\ \E k \in (0 - SkewSteps)..SkewSteps :
       /\ now' = mono + k * JITTER_MS
       /\ now' # now
  /\ UNCHANGED <<mono, bucket, waiter>>

InitBucket ==
  /\ InitCacheOps
  /\ bucket \in {createTokenBucket(GLOBAL_RPS, 0), createTokenBucket(PER_USER_RPS, 0)}
  /\ waiter = [a \in Waiters |-> IdleWaiter]
  /\ jumps = 0
  /\ now = 0
  /\ mono = 0
  /\ memoryCache = NewLruCache(DEFAULT_MAX_LRU_ENTRIES)
  /\ persistentCache = EmptyMap
  /\ persistentLoaded = FALSE
  /\ cacheFile = NoFile
  /\ globalBucket = createTokenBucket(GLOBAL_RPS, 0)
  /\ userBuckets = EmptyMap
  /\ call = [c \in 1..NCalls |-> IdleCall]
  /\ made = 0

NextBucket ==
  /\ \/ \E a \in Waiters, jitter \in JitterSet : Acquire(a, jitter)
     \/ \E a \in Waiters, jitter \in JitterSet : AcquireWake(a, jitter)
     \/ BucketTick
  /\ UNCHANGED <<cacheVars, cacheOpVars, bucketVars, call, made, probe, recency>>

NextBucketSkew ==
  /\ \/ \E a \in Waiters, jitter \in JitterSet : Acquire(a, jitter)
     \/ \E a \in Waiters, jitter \in JitterSet : AcquireWake(a, jitter)
     \/ BucketTick
     \/ ClockJump
  /\ UNCHANGED <<cacheVars, cacheOpVars, bucketVars, call, made, probe, recency>>

SpecBucket == InitBucket /\ [][NextBucket]_vars
SpecBucketSkew == InitBucket /\ [][NextBucketSkew]_vars

\* --------------------------------------- getCached's derivations on their own
\*
\* Before its cache lookup getCached derives the final URL and the cache key
\* from its arguments, and after a miss the bucket of its caller. SpecDerive
\* runs these derivations alone, on URLs with and without query parameters
\* and on the values an option can take: absent, empty, plain, or with a
\* character that the query string escapes.

UrlWithNamespace == UrlPlain \o <<"?">> \o Str_namespace \o <<"=", "x">>
UrlWithLocale == UrlPlain \o <<"?">> \o Str_locale \o <<"=", "y", "&", "q", "=", "1">>
UrlWithOther == UrlPlain \o <<"?", "q", "=", "1">>
UrlEmptyQuery == UrlPlain \o <<"?">>
ProbeUrls == {UrlPlain, UrlWithNamespace, UrlWithLocale, UrlWithOther, UrlEmptyQuery}
NsEscaped == <<"a", "&", "b">>
LocaleEn == <<"e", "n", "_", "U", "S">>
Str_anonymous == <<"a", "n", "o", "n", "y", "m", "o", "u", "s">>
\* a value made of a character of the cache key's separator
ProbeNamespaces == {Undefined, <<>>, NsRetail, NsEscaped}
ProbeLocales == {Undefined, <<>>, LocaleEn, <<":">>}
ProbeUsers == {Undefined, <<>>, User1, Str_anonymous, Str_global, <<":">>}

\* finalUrl = withQueryParams(url, {namespace, locale})
Normalise ==
  /\ probe.url # <<>>
  /\ probe.finalUrl = NotRun
  /\ probe' = [probe EXCEPT
                 !.finalUrl = withQueryParams(probe.url, probe.namespace, probe.locale)]

\* the final URL is passed to getCached again, with the same options
NormaliseAgain ==
  /\ probe.finalUrl # NotRun
  /\ probe.again = NotRun
  /\ probe' = [probe EXCEPT
                 !.again = withQueryParams(probe.finalUrl, probe.namespace, probe.locale)]

\* the cache key and the bucket of the call, and those of the same call made
\* without tokenUserId
DeriveIdentity ==
  /\ probe.finalUrl # NotRun
  /\ probe.cacheKey = NotRun
  /\ probe' = [probe EXCEPT
       !.cacheKey = buildCacheKey(Str_GET, probe.finalUrl, probe.namespace, probe.locale,
                                  probe.tokenUserId),
       !.bucketId = BucketId(Request(probe.url, 1, probe.namespace, probe.locale,
                                     probe.tokenUserId, "t1")),
       !.cacheKeyAbsent = buildCacheKey(Str_GET, probe.finalUrl, probe.namespace,
                                        probe.locale, Undefined),
       !.bucketIdAbsent = BucketId(Request(probe.url, 1, probe.namespace, probe.locale,
                                           Undefined, "t1"))]

\* a second call, with options of its own: its final URL and its cache key
DeriveOther ==
  /\ probe.cacheKey # NotRun
  /\ probe.again # NotRun
  /\ probe.otherKey = NotRun
  /\ \E url \in ProbeUrls, namespace \in ProbeNamespaces, locale \in ProbeLocales,
        tokenUserId \in ProbeUsers :
       LET finalUrl == withQueryParams(url, namespace, locale)
       IN  probe' = [probe EXCEPT
             !.other = [url |-> url, namespace |-> namespace, locale |-> locale,
                       tokenUserId |-> tokenUserId],
             !.otherFinalUrl = finalUrl,
             !.otherKey = buildCacheKey(Str_GET, finalUrl, namespace, locale, tokenUserId)]

InitDerive ==
  /\ probe \in {Probe(url, namespace, locale, tokenUserId) :
                  url \in ProbeUrls, namespace \in ProbeNamespaces,
                  locale \in ProbeLocales, tokenUserId \in ProbeUsers}
  /\ pending = [k \in CacheKeys |-> 0]
  /\ lastOp = NoOp
  /\ written = [k \in CacheKeys |-> NoEntry]
  /\ recency = <<>>
  /\ InitBucketOps
  /\ now = 0
  /\ mono = 0
  /\ memoryCache = NewLruCache(DEFAULT_MAX_LRU_ENTRIES)
  /\ persistentCache = EmptyMap
  /\ persistentLoaded = FALSE
  /\ cacheFile = NoFile
  /\ globalBucket = createTokenBucket(GLOBAL_RPS, 0)
  /\ userBuckets = EmptyMap
  /\ call = [c \in 1..NCalls |-> IdleCall]
  /\ made = 0

NextDerive ==
  /\ \/ Normalise
     \/ NormaliseAgain
     \/ DeriveIdentity
     \/ DeriveOther
  /\ UNCHANGED <<clockVars, cacheVars, bucketVars, call, made, cacheOpVars, bucketOpVars,
               recency>>

SpecDerive == InitDerive /\ [][NextDerive]_vars

\* C4: read-your-write. A get(k) issued strictly before the expiry of the
\* last set(k, v, ttl) returns an entry whose value is v, whatever happened
\* to other keys, to the memory tier or to the process in between.
C4_ReadYourWrite ==
  (/\ lastOp.kind = "get"
   /\ written[lastOp.key] # NoEntry
   /\ lastOp.at < written[lastOp.key].expiresAt)
    => (lastOp.entry # NoEntry /\ lastOp.entry.value = written[lastOp.key].value)

\* a get answered from the disk tier, later than the set, with its value
C4_Witness ==
  /\ lastOp.kind = "get"
  /\ written[lastOp.key] # NoEntry
  /\ lastOp.entry = written[lastOp.key]
  /\ lastOp.at < written[lastOp.key].expiresAt
  /\ ~lastOp.mem
  /\ lastOp.disk

\* C5: expiry. A get never returns an entry whose expiresAt is at or before
\* the time of the get, and a get issued at or after the expiry of the last
\* set of its key is a miss, whichever tier holds the entry.
C5_ExpiredIsMiss ==
  lastOp.kind = "get"
    => /\ lastOp.entry # NoEntry => lastOp.entry.expiresAt > lastOp.at
       /\ (written[lastOp.key] # NoEntry /\ lastOp.at >= written[lastOp.key].expiresAt)
            => lastOp.entry = NoEntry

\* a get at the very instant of expiry, the entry still in both tiers: a miss
C5_Witness ==
  /\ lastOp.kind = "get"
  /\ written[lastOp.key] # NoEntry
  /\ lastOp.at = written[lastOp.key].expiresAt
  /\ lastOp.mem
  /\ lastOp.disk
  /\ lastOp.entry = NoEntry

\* ------------------------------------------------- properties of getCached

\* the entry the two tiers hold for a key, as a get at the current instant
\* finds it: the memory tier's if fresh, else the disk tier's (the snapshot
\* file's while it is not loaded)
TierEntry(key) ==
  IF Fresh(MemoryEntry(key), now) THEN MemoryEntry(key)
  ELSE IF Fresh(DiskEntry(key), now) THEN DiskEntry(key)
  ELSE NoEntry

\* call c starts in this step (getCached is called)
Starts(c) == call[c].pc = "idle" /\ call'[c].pc # "idle"
\* call c fails in this step with the response to its last attempt
Throws(c) == call[c].pc = "fetch" /\ call'[c].pc = "thrown"

\* C1 (as claimed): a 403/404 on a legacy endpoint stores a negative entry
\* expiring at now + 2 x ttlSeconds, and every getCached call for that key made
\* before the expiry fails with BlizzardApiError, endpointUnavailable = true,
\* carrying the HTTP status, without a network call.
C1_NegativeHitThrows ==
  [][\A c \in Calls :
       /\ (Throws(c) /\ call'[c].result.endpointUnavailable)
            => /\ MapGet(persistentCache', call[c].cacheKey)
                    = CacheEntry(Null, now + 2 * call[c].req.ttlSeconds * 1000)
               /\ cacheFile'.kind = "json"
               /\ MapGet(cacheFile'.data, call[c].cacheKey)
                    = CacheEntry(Null, now + 2 * call[c].req.ttlSeconds * 1000)
       /\ (Starts(c) /\ TierEntry(call'[c].cacheKey) # NoEntry
                     /\ TierEntry(call'[c].cacheKey).value = Null)
            => /\ call'[c].pc = "thrown"
               /\ call'[c].result.kind = "error"
               /\ call'[c].result.endpointUnavailable
               /\ call'[c].result.status \in {403, 404}
               /\ call'[c].sent = 0]_vars

\* C2: a getCached call that finds an unexpired entry for its key in either
\* tier returns that entry's value in the same step, sends no request and
\* leaves the global bucket, every per-caller bucket and the registry as they
\* were.
C2_HitSkipsThrottle ==
  [][\A c \in Calls :
       (Starts(c) /\ TierEntry(call'[c].cacheKey) # NoEntry)
         => /\ call'[c].pc = "returned"
            /\ call'[c].result = Returned(TierEntry(call'[c].cacheKey).value)
            /\ call'[c].sent = 0
            /\ globalBucket' = globalBucket
            /\ userBuckets' = userBuckets]_vars

\* a call answered from the cache: returned without a request of its own
C2_Witness ==
  \E c \in Calls : call[c].pc = "returned" /\ call[c].sent = 0 /\ made = 2

\* C3: a failed request is negatively cached exactly when its final status is
\* 403 or 404 and the classifier matches; every other failure throws with the
\* HTTP status and endpointUnavailable = false and leaves both tiers and the
\* snapshot file unchanged; and no other step stores a negative entry.
C3_NegativeCachedIffUnavailable ==
  [][/\ \A c \in Calls :
          Throws(c) =>
            LET legacy == call'[c].lastStatus \in {403, 404}
                          /\ isClassicEndpoint(call[c].finalUrl, call[c].req.namespace)
            IN  /\ call'[c].result.kind = "error"
                /\ call'[c].result.status = call'[c].lastStatus
                /\ call'[c].result.endpointUnavailable = legacy
                /\ legacy => /\ MemoryEntry(call[c].cacheKey)' # NoEntry
                             /\ MemoryEntry(call[c].cacheKey)'.value = Null
                             /\ MapGet(persistentCache', call[c].cacheKey).value = Null
                /\ ~legacy => /\ memoryCache' = memoryCache
                              /\ persistentCache' = persistentCache
                              /\ persistentLoaded' = persistentLoaded
                              /\ cacheFile' = cacheFile
     /\ \A k \in DOMAIN persistentCache' :
          (persistentCache'[k].value = Null /\ MapGet(persistentCache, k) # persistentCache'[k])
            => \E c \in Calls : /\ Throws(c)
                                /\ call[c].cacheKey = k
                                /\ call'[c].result.endpointUnavailable]_vars

\* a 404 on a URL the classifier does not match: thrown, nothing cached
C3_Witness ==
  \E c \in Calls :
    /\ call[c].pc = "thrown"
    /\ call[c].result.status = 404
    /\ ~call[c].result.endpointUnavailable
    /\ ~isClassicEndpoint(call[c].finalUrl, call[c].req.namespace)
    /\ persistentCache = EmptyMap

\* the statuses the claims call transient: 429 and 5xx
TransientStatus(status) == status = 429 \/ status \in 500..599

\* C6: a fetchWithRetry call sends at most MAX_RETRIES (4) requests; it sleeps
\* to retry only after fewer than 4 attempts; a 429/5xx reaches getCached (and
\* is thrown from there with its status) only as the answer to attempt 4; the
\* fetch after the loop is never sent.
C6_AtMostFourRequests ==
  \A c \in Calls :
    /\ call[c].sent <= MAX_RETRIES
    /\ call[c].inLoop
    /\ call[c].pc \in {"fetch", "backoff"} => call[c].attempt = call[c].sent
    /\ call[c].pc = "backoff" => call[c].attempt < MAX_RETRIES
    /\ (call[c].pc = "thrown" /\ TransientStatus(call[c].result.status))
         => call[c].sent = MAX_RETRIES

\* four attempts all answered 429: getCached throws with status 429
C6_Witness ==
  \E c \in Calls :
    call[c].pc = "thrown" /\ call[c].sent = 4 /\ call[c].result.status = 429

\* the backoff before jitter after failed attempt n
BackoffOf(n) == Min(BACKOFF_BASE_MS * 2 ^ (n - 1), MAX_BACKOFF_MS)

\* C7: the sleep after failed attempt n is min(1000 * 2^(n-1), 8000) ms plus a
\* jitter in [0, 250); a call that succeeds on its 4th attempt has slept at
\* least 7000 ms and less than 7750 ms in backoff, and that much time passed.
C7_BackoffSchedule ==
  \A c \in Calls :
    /\ call[c].pc = "backoff"
         => /\ call[c].sleepMs - BackoffOf(call[c].attempt) >= 0
            /\ call[c].sleepMs - BackoffOf(call[c].attempt) < JITTER_MS
    /\ (call[c].pc \in {"json", "returned"} /\ call[c].sent = 4)
         => /\ call[c].waited >= 1000 + 2000 + 4000
            /\ call[c].waited < 7750
            /\ mono >= call[c].waited

\* 429, 429, 429, 200: the value is returned after four requests
C7_Witness ==
  \E c \in Calls :
    call[c].pc = "returned" /\ call[c].sent = 4 /\ call[c].result.kind = "value"

\* C8: a response that is neither 429 nor 5xx ends fetchWithRetry in the step
\* that receives it: no sleep, no further request; a 403/404 to the first
\* attempt has cost exactly one request.
C8_OtherStatusNotRetried ==
  [][\A c \in Calls :
       (call[c].pc = "fetch" /\ call'[c] # call[c]
                             /\ ~TransientStatus(call'[c].lastStatus))
         => /\ call'[c].pc \in {"thrown", "json"}
            /\ call'[c].sent = call[c].sent
            /\ call'[c].waited = call[c].waited
            /\ (call[c].attempt = 1 /\ call'[c].lastStatus \in {403, 404})
                 => (call'[c].pc = "thrown" /\ call'[c].sent = 1)]_vars

\* a 404 on a legacy endpoint, thrown after one request
C8_Witness ==
  \E c \in Calls :
    /\ call[c].pc = "thrown"
    /\ call[c].result.status = 404
    /\ call[c].result.endpointUnavailable
    /\ call[c].sent = 1
    /\ call[c].waited = 0

\* C9: whatever the interleaving of the waitForToken calls on a bucket and
\* whatever the wall clock does, backward adjustments included, the bucket
\* holds at least zero tokens and at most its capacity.
C9_TokensWithinBounds ==
  /\ bucket.tokens >= 0
  /\ bucket.tokens <= bucket.capacity * TOKEN_SCALE

\* the wall clock stands before the bucket's last refill, the bucket is empty
\* and a call made under that clock is waiting for a token
C9_Witness ==
  /\ now < bucket.lastRefill
  /\ bucket.tokens = 0
  /\ \E a \in Waiters :
       /\ waiter[a].st = "wait"
       /\ waiter[a].issuedAt < bucket.lastRefill

\* the calls made at the instant of the first one, the bucket then full
InBurst(a) ==
  /\ waiter[a].st # "idle"
  /\ waiter[a].issuedAt = waiter[1].issuedAt

\* C10: on a steady clock, of the calls made at one instant on a full bucket
\* of capacity C and rate R the first C take their token in the turn of the
\* call, without a refill wait, and call C + 1 does not take one before
\* 1 / R seconds have passed.
C10_BurstThenRefillWait ==
  \A a \in 1..(bucket.capacity + 1) :
    InBurst(a) =>
      IF a <= bucket.capacity
      THEN /\ waiter[a].grantedAt = waiter[a].issuedAt
           /\ waiter[a].st \in {"granted", "done"}
           /\ waiter[a].st = "granted"
                => waiter[a].wake - waiter[a].issuedAt < JITTER_MS
      ELSE waiter[a].grantedAt # NotYet
             => (waiter[a].grantedAt - waiter[a].issuedAt) * bucket.refillRate >= 1000

\* call C + 1 of the burst has its token, 1 / R seconds after the burst
C10_Witness ==
  LET a == bucket.capacity + 1
  IN  /\ InBurst(a)
      /\ waiter[a].st = "done"
      /\ (waiter[a].grantedAt - waiter[a].issuedAt) * bucket.refillRate = 1000
      /\ \A b \in 1..bucket.capacity : waiter[b].grantedAt = waiter[b].issuedAt

\* ---------------------------------------------- properties of throttling

\* the calls that take a token of the global bucket in this step, and of the
\* bucket of caller `id`
GlobalTakers == {c \in Calls : call'[c].gDebits = call[c].gDebits + 1}
UserTakers(id) ==
  {c \in Calls : BucketId(call'[c].req) = id /\ call'[c].uDebits = call[c].uDebits + 1}

\* a step's effect on a bucket `before`: untouched or refilled when no call
\* takes a token, refilled and one token less per taker otherwise
TokensAccounted(before, after, takers) ==
  IF takers = {}
  THEN after = before \/ after = refillBucket(before, now)
  ELSE after = [refillBucket(before, now) EXCEPT
                  !.tokens = @ - TOKEN_SCALE * Cardinality(takers)]

\* the bucket of caller `id` before this step: the registry's, or the one
\* getUserBucket creates in the step
UserBucketBefore(id) ==
  IF id \in DOMAIN userBuckets THEN userBuckets[id]
  ELSE createTokenBucket(PER_USER_RPS, now)

\* C11: a call that missed the cache sends its first request only after it
\* has taken exactly one token of the global bucket and exactly one of its
\* caller's bucket; it never takes a second token of either, and the buckets
\* lose exactly the tokens the calls take.
C11_BothTokensBeforeFirstRequest ==
  [][/\ \A c \in Calls :
          /\ call'[c].gDebits <= 1
          /\ call'[c].uDebits <= 1
          /\ (call[c].sent = 0 /\ call'[c].sent = 1)
               => call'[c].gDebits = 1 /\ call'[c].uDebits = 1
          /\ (call[c].pc = "idle" /\ call'[c].pc = "returned")
               => call'[c].gDebits = 0 /\ call'[c].uDebits = 0
     /\ TokensAccounted(globalBucket, globalBucket', GlobalTakers)
     /\ \A id \in DOMAIN userBuckets' :
          TokensAccounted(UserBucketBefore(id), userBuckets'[id], UserTakers(id))]_vars

\* three calls of one caller have all sent a request, the third after
\* waiting for its caller's bucket to refill
C11_Witness ==
  /\ \A c \in Calls :
       /\ call[c].req.tokenUserId = User1
       /\ call[c].sent >= 1
       /\ call[c].gDebits = 1
       /\ call[c].uDebits = 1
  /\ userBuckets[User1].lastRefill > 0

\* the requests sent so far by the calls in `cs`, and the tokens they took
SentBy(cs) == SumOver([c \in Calls |-> call[c].sent], cs)
GlobalTokensOf(cs) == SumOver([c \in Calls |-> call[c].gDebits], cs)
UserTokensOf(cs) == SumOver([c \in Calls |-> call[c].uDebits], cs)
CallsOf(id) == {c \in Calls : call[c].pc # "idle" /\ BucketId(call[c].req) = id}

\* C12 (as claimed): the requests sent, retries included, never outnumber the
\* tokens taken from the global bucket, and those sent for one caller never
\* outnumber the tokens taken from that caller's bucket.
C12_RequestsWithinTokens ==
  /\ SentBy(Calls) <= GlobalTokensOf(Calls)
  /\ \A id \in DOMAIN userBuckets : SentBy(CallsOf(id)) <= UserTokensOf(CallsOf(id))

\* the registry key of the bucket of the caller identity tokenUserId
BucketOfCaller(tokenUserId) == IF tokenUserId = Undefined THEN Str_global ELSE tokenUserId

\* call c runs a turn of waitForToken on its caller's bucket in this step
UserTurn(c) ==
  \/ call[c].pc = "idle" /\ call'[c].pc = "throttle"
  \/ /\ call[c].pc = "throttle"
     /\ call[c].uw.st = "wait"
     /\ call'[c].uw # call[c].uw

\* C13: a bucket of the registry changes only in a step of a call of its own
\* caller identity, whatever the calls of other identities do; and a turn of
\* waitForToken on a caller's bucket takes a token whenever that bucket holds
\* at least one after its refill, whatever the other buckets hold.
C13_CallerIsolation ==
  [][/\ \A id \in DOMAIN userBuckets :
          userBuckets'[id] # userBuckets[id]
            => \E c \in Calls : /\ call'[c] # call[c]
                                 /\ BucketOfCaller(call'[c].req.tokenUserId) = id
     /\ \A c \in Calls :
          UserTurn(c) =>
            LET id == BucketOfCaller(call'[c].req.tokenUserId)
                before == IF id \in DOMAIN userBuckets THEN userBuckets[id]
                          ELSE createTokenBucket(PER_USER_RPS, now)
            IN  /\ id \in DOMAIN userBuckets'
                /\ refillBucket(before, now).tokens >= TOKEN_SCALE
                     => /\ call'[c].uw.st = "granted"
                        /\ call'[c].uDebits = call[c].uDebits + 1]_vars

\* one caller's bucket is empty, and the bucket of the caller without
\* tokenUserId, first used later, has given a token
C13_Witness ==
  /\ User1 \in DOMAIN userBuckets
  /\ Str_global \in DOMAIN userBuckets
  /\ userBuckets[User1].tokens = 0
  /\ userBuckets[Str_global].lastRefill > userBuckets[User1].lastRefill
  /\ userBuckets[Str_global].tokens = (PER_USER_RPS - 1) * TOKEN_SCALE
  /\ \E c \in Calls : call[c].req.tokenUserId = Undefined /\ call[c].uDebits = 1

\* C19: calls for one key that all missed are not merged. A call that leaves
\* throttle goes on to send its first request, holding its own token of each
\* bucket, without another cache lookup, also when another call has stored
\* the value meanwhile; and a call past its cache check returns a value only
\* from the body of a response to a request of its own.
C19_NoInFlightDedup ==
  [][\A c \in Calls :
       /\ (call[c].pc = "throttle" /\ call'[c].pc # "throttle")
            => /\ call'[c].pc = "fetch"
               /\ call'[c].sent = 1
               /\ call'[c].gDebits = 1
               /\ call'[c].uDebits = 1
               /\ UNCHANGED cacheVars
       /\ (call[c].pc \notin {"idle", "returned"} /\ call'[c].pc = "returned")
            => /\ call[c].pc = "json"
               /\ call[c].sent >= 1
               /\ call'[c].result = Returned(call[c].response.body)]_vars

\* three calls for one key, each with a request of its own: one has stored
\* the value, which is fresh in the cache, and another is still waiting for
\* the answer to its request
C19_Witness ==
  /\ \A c \in Calls : call[c].sent >= 1 /\ call[c].cacheKey = call[1].cacheKey
  /\ \E c \in Calls : call[c].pc = "returned"
  /\ \E c \in Calls : call[c].pc = "fetch"
  /\ TierEntry(call[1].cacheKey) # NoEntry

\* C22 (as claimed): no call holds a token of one of its two buckets while
\* it is still waiting for the other bucket to refill: a call blocked on its
\* caller's empty bucket has taken nothing from the global bucket, and a call
\* blocked on the global bucket nothing from its caller's.
C22_NoTokenHeldWhileWaiting ==
  \A c \in Calls :
    call[c].pc = "throttle"
      => /\ ~(call[c].gDebits = 1 /\ call[c].uw.st = "wait")
         /\ ~(call[c].uDebits = 1 /\ call[c].gw.st = "wait")

\* ---------------------------------------- properties of the memory tier

\* this step is a cache operation of the given kind
CacheStep(kind) == now' = now /\ lastOp'.kind = kind

\* the keys the memory tier holds
MemoryKeys == {memoryCache.map[i].key : i \in 1..Len(memoryCache.map)}
\* of the keys in `keys`, the one touched least recently
LeastRecentlyTouched(keys) ==
  recency[CHOOSE i \in 1..Len(recency) :
            /\ recency[i] \in keys
            /\ \A j \in 1..(i - 1) : recency[j] \notin keys]

\* C23: after every get and set the memory tier holds at most maxEntries keys
\* (300 in the program). A key leaves the memory tier only when a key it did
\* not hold is stored in the full tier, by a set or by a get that promotes
\* the disk tier's entry; then exactly one key leaves, and it is the one
\* touched least recently, a touch being a store of the key in the memory
\* tier or a get that finds the key there, expired or not.
C23_LruBound ==
  [][/\ Len(memoryCache'.map) <= memoryCache'.maxEntries
     /\ Cardinality(MemoryKeys') = Len(memoryCache'.map)
     /\ \A k \in MemoryKeys \ MemoryKeys' :
          /\ Len(memoryCache.map) = memoryCache.maxEntries
          /\ lastOp'.key \notin MemoryKeys
          /\ lastOp'.key \in MemoryKeys'
          /\ MemoryKeys' = (MemoryKeys \ {k}) \cup {lastOp'.key}
          /\ k = LeastRecentlyTouched(MemoryKeys)]_vars

\* the full memory tier held an entry, now expired, that a get had touched
\* after the set of a newer entry (set a second or more after it); the set of
\* a third key has removed the newer one and kept the older
C23_Witness ==
  /\ lastOp.kind = "set"
  /\ Len(recency) = 3
  /\ Len(memoryCache.map) = 2
  /\ memoryCache.map[1].key = recency[2]
  /\ memoryCache.map[2].key = lastOp.key
  /\ recency[1] \notin MemoryKeys
  /\ memoryCache.map[1].entry.expiresAt <= now
  /\ written[recency[1]].expiresAt - memoryCache.map[1].entry.expiresAt >= 2000

\* C25: a get of a key whose last set has not expired and which the memory
\* tier no longer holds, other keys having pushed it out, returns the entry
\* set, from the disk tier, and leaves the key in the memory tier as the most
\* recently used one, with that entry; if the tier was full the key touched
\* least recently leaves it and no other; the disk tier is as it was.
C25_EvictionLosesNothing ==
  [][\A k \in DOMAIN pending :
       (/\ CacheStep("get")
        /\ lastOp'.key = k
        /\ k \notin MemoryKeys
        /\ written[k] # NoEntry
        /\ now < written[k].expiresAt)
         => /\ lastOp'.entry = written[k]
            /\ memoryCache'.map[Len(memoryCache'.map)] = [key |-> k, entry |-> written[k]]
            /\ persistentCache' = persistentCache
            /\ MemoryKeys' =
                 IF Len(memoryCache.map) < memoryCache.maxEntries
                 THEN MemoryKeys \cup {k}
                 ELSE (MemoryKeys \ {LeastRecentlyTouched(MemoryKeys)}) \cup {k}]_vars

\* a get has brought back from the disk tier a key pushed out of the full
\* memory tier, and the key touched least recently has left the tier for it
C25_Witness ==
  /\ lastOp.kind = "get"
  /\ ~lastOp.mem
  /\ lastOp.disk
  /\ lastOp.entry = written[lastOp.key]
  /\ lastOp.entry # NoEntry
  /\ Len(recency) = 3
  /\ recency[3] = lastOp.key
  /\ Len(memoryCache.map) = 2
  /\ memoryCache.map[1].key = recency[2]
  /\ memoryCache.map[2] = [key |-> lastOp.key, entry |-> lastOp.entry]

\* ------------------------------------------- properties of the snapshot

\* C14: after a restart the first get of the new process, which finds the
\* memory tier empty and loads the snapshot, returns for its key the entry
\* written before the restart if that is unexpired; if it has expired the get
\* is a miss and the key is gone from the disk tier and from the file. The
\* load brings back every other key's unexpired entry.
C14_RestartKeepsUnexpired ==
  (lastOp.kind = "get" /\ ~lastOp.loaded)
    => /\ persistentLoaded
       /\ ~lastOp.mem
       /\ \A k \in CacheKeys :
            written[k] # NoEntry =>
              IF lastOp.at < written[k].expiresAt
              THEN /\ MapGet(persistentCache, k) = written[k]
                   /\ k = lastOp.key => lastOp.entry = written[k]
              ELSE k = lastOp.key
                     => /\ lastOp.entry = NoEntry
                        /\ k \notin DOMAIN persistentCache
                        /\ cacheFile.kind = "json"
                        /\ k \notin DOMAIN cacheFile.data

\* the first get after a restart returns the entry written before it
C14_Witness ==
  /\ lastOp.kind = "get"
  /\ ~lastOp.loaded
  /\ written[lastOp.key] # NoEntry
  /\ lastOp.entry = written[lastOp.key]
  /\ lastOp.at > 0

\* C15 (as claimed): with the snapshot file absent, or present and not a JSON
\* mapping, the first cache access goes on with an empty disk tier and is a
\* miss, and every cache mutation leaves in the file the snapshot of the disk
\* tier.
C15_BadSnapshotIsEmptyCache ==
  /\ (lastOp.kind = "get" /\ ~lastOp.loaded /\ cacheFile.kind # "json")
       => /\ persistentLoaded
          /\ persistentCache = EmptyMap
          /\ lastOp.entry = NoEntry
  /\ lastOp.kind = "set" => cacheFile = JsonStringify(persistentCache)

\* ------------------------------------- properties of getCached's outcome

\* the max-age a cache-control header of the runs carries, in seconds: 3 in
\* "public, Max-Age=3", none otherwise
CarriesMaxAge(cacheControl) == cacheControl = CcMaxAge3

\* C16: on a 2xx response getCached stores, in both tiers and in the file, an
\* entry that holds the parsed body and expires T seconds after the store,
\* T being the header's max-age if the response has a cache-control header
\* with a numeric max-age and the caller's ttlSeconds otherwise; the value
\* stored is the value returned.
C16_SuccessTtl ==
  [][\A c \in Calls :
       (call[c].pc = "json" /\ call'[c].pc = "returned")
         => LET resp == call[c].response
                T == IF CarriesMaxAge(resp.cacheControl) THEN 3 ELSE call[c].req.ttlSeconds
                stored == CacheEntry(resp.body, now + T * 1000)
            IN  /\ call'[c].result = Returned(resp.body)
                /\ MemoryEntry(call[c].cacheKey)' = stored
                /\ MapGet(persistentCache', call[c].cacheKey) = stored
                /\ cacheFile'.kind = "json"
                /\ MapGet(cacheFile'.data, call[c].cacheKey) = stored]_vars

\* a call with ttlSeconds 2 has returned the body of a response with
\* max-age=3, stored to expire 3 seconds later
C16_Witness ==
  \E c \in Calls :
    /\ call[c].pc = "returned"
    /\ call[c].sent >= 1
    /\ call[c].req.ttlSeconds = 2
    /\ call[c].result = Returned("d2")
    /\ MapGet(persistentCache, call[c].cacheKey) = CacheEntry("d2", now + 3000)

\* C17 (as claimed): whatever getCached throws, for a final status that is
\* not 2xx, for an unavailable endpoint or for a body that does not parse, is
\* a BlizzardApiError that carries the HTTP status of the last response and
\* the flag endpointUnavailable.
C17_FailuresAreTyped ==
  \A c \in Calls :
    call[c].pc = "thrown"
      => /\ call[c].result.kind = "error"
         /\ call[c].result.name = "BlizzardApiError"
         /\ call[c].result.status = call[c].lastStatus
         /\ call[c].result.endpointUnavailable \in BOOLEAN

\* ------------------------------------ properties of getCached's derivations

\* C18 (as claimed): a call without tokenUserId and a call with tokenUserId
\* "anonymous" use the same per-caller bucket and derive the same cache key.
C18_AbsentIsAnonymous ==
  (probe.tokenUserId = Str_anonymous /\ probe.cacheKey # NotRun)
    => /\ probe.bucketId = probe.bucketIdAbsent
       /\ probe.cacheKey = probe.cacheKeyAbsent

\* the pieces of a URL's query string: all of them, and those named `name`
QueryPieces(url) == SelectSeq(Split(QueryOf(url), "&"), LAMBDA piece : piece # <<>>)
PiecesNamed(url, name) == SelectSeq(QueryPieces(url), LAMBDA piece : ParamName(piece) = name)
\* what comes before the query string
BeforeQuery(url) ==
  IF IndexOf(url, "?") = 0 THEN url ELSE SubSeq(url, 1, IndexOf(url, "?") - 1)

\* the parameter `name` of the final URL, the option's value being `option`:
\* the caller's own if the URL carried one, else the option's if it has a
\* value, else none
ParameterKept(name, option) ==
  IF PiecesNamed(probe.url, name) # <<>>
  THEN PiecesNamed(probe.finalUrl, name) = PiecesNamed(probe.url, name)
  ELSE IF option # Undefined /\ option # <<>>
       THEN PiecesNamed(probe.finalUrl, name) = <<name \o <<"=">> \o UrlEncode(option)>>
       ELSE PiecesNamed(probe.finalUrl, name) = <<>>

\* C20: the final URL has the namespace and locale given in the options only
\* where the URL carried no parameter of that name; what the caller's URL
\* carried is all there, unchanged and in its place; and normalising the
\* final URL again with the same options returns it as it is.
C20_NormaliseAddsOnlyMissing ==
  /\ probe.finalUrl # NotRun
       => /\ ParameterKept(Str_namespace, probe.namespace)
          /\ ParameterKept(Str_locale, probe.locale)
          /\ BeforeQuery(probe.finalUrl) = BeforeQuery(probe.url)
          /\ Len(QueryPieces(probe.finalUrl)) >= Len(QueryPieces(probe.url))
          /\ SubSeq(QueryPieces(probe.finalUrl), 1, Len(QueryPieces(probe.url)))
               = QueryPieces(probe.url)
  /\ probe.again # NotRun => probe.again = probe.finalUrl

\* a URL that carries its own namespace, options with another namespace and
\* a locale: the locale alone is added, and a second pass adds nothing
C20_Witness ==
  /\ probe.url = UrlWithNamespace
  /\ probe.namespace = NsEscaped
  /\ probe.locale = LocaleEn
  /\ probe.finalUrl = UrlWithNamespace \o <<"&">> \o Str_locale \o <<"=">> \o LocaleEn
  /\ probe.again = probe.finalUrl

\* the tuple a cache key is built from: of the first call, of the second
KeyTuple == <<Str_GET, probe.finalUrl, probe.namespace, probe.locale, probe.tokenUserId>>
OtherKeyTuple ==
  <<Str_GET, probe.otherFinalUrl, probe.other.namespace, probe.other.locale,
    probe.other.tokenUserId>>

\* C21 (as claimed): two calls derive the same cache key exactly when their
\* tuples (method, normalised URL, namespace, locale, caller identity) are
\* equal, absent and empty components and components with the separator's
\* character included; two calls that differ only in the caller identity
\* never derive the same key.
C21_KeysAreUnique ==
  probe.otherKey # NotRun
    => /\ (probe.cacheKey = probe.otherKey) <=> (KeyTuple = OtherKeyTuple)
       /\ (/\ probe.other.url = probe.url
           /\ probe.other.namespace = probe.namespace
           /\ probe.other.locale = probe.locale
           /\ probe.other.tokenUserId # probe.tokenUserId)
            => probe.cacheKey # probe.otherKey

\* C24: a set leaves in the snapshot file exactly the disk tier's mapping,
\* the entry set included. A get that finds no fresh entry in the memory tier
\* and an expired one in the disk tier removes it from the disk tier and
\* leaves in the file exactly the disk tier's mapping, without removing a key
\* from the memory tier; every other get leaves the file as it was.
C24_SnapshotWriteBack ==
  [][/\ CacheStep("set")
          => /\ cacheFile' = JsonStringify(persistentCache')
             /\ MapGet(cacheFile'.data, lastOp'.key) = lastOp'.entry
     /\ \A k \in DOMAIN pending :
          (CacheStep("get") /\ lastOp'.key = k)
            => IF /\ ~Fresh(MemoryEntry(k), now)
                  /\ DiskEntry(k) # NoEntry
                  /\ ~Fresh(DiskEntry(k), now)
               THEN /\ k \notin DOMAIN persistentCache'
                    /\ cacheFile' = JsonStringify(persistentCache')
                    /\ MemoryKeys' = MemoryKeys
                    /\ MemoryEntry(k)' = MemoryEntry(k)
               ELSE cacheFile' = cacheFile]_vars

\* a get has found its key expired in both tiers: the key is gone from the
\* disk tier and from the file, which still holds another key's entry, and
\* the memory tier still holds the expired entry
C24_Witness ==
  /\ lastOp.kind = "get"
  /\ lastOp.mem
  /\ lastOp.disk
  /\ lastOp.entry = NoEntry
  /\ MemoryEntry(lastOp.key) # NoEntry
  /\ MemoryEntry(lastOp.key).expiresAt <= lastOp.at
  /\ lastOp.key \notin DOMAIN persistentCache
  /\ cacheFile = JsonStringify(persistentCache)
  /\ DOMAIN persistentCache # {}

\* the process restarts in this step
RestartStep ==
  /\ ~persistentLoaded'
  /\ persistentCache' = EmptyMap
  /\ memoryCache'.map = <<>>
  /\ cacheFile' = cacheFile

\* the entries a process has persisted: those of the mapping in the file
PersistedEntries == IF cacheFile.kind = "json" THEN cacheFile.data ELSE EmptyMap

\* C27: the snapshot file is written only once it has been loaded: by a set,
\* which follows the lookup of its call, or by the get that has just loaded
\* it. A write keeps every entry the file held, those of earlier processes
\* included, but the entry of the key set and the expired entry a get
\* removes. Once loaded the snapshot stays loaded until the process ends,
\* the file being read at the load only.
C27_LoadBeforeWrite ==
  [][/\ cacheFile' # cacheFile
          => /\ persistentLoaded'
             /\ persistentLoaded \/ CacheStep("get")
             /\ cacheFile'.kind = "json"
             /\ \A k \in DOMAIN PersistedEntries :
                  \/ MapGet(cacheFile'.data, k) = PersistedEntries[k]
                  \/ CacheStep("set") /\ k = lastOp'.key
                  \/ /\ CacheStep("get")
                     /\ k = lastOp'.key
                     /\ PersistedEntries[k].expiresAt <= now
     /\ (persistentLoaded /\ ~persistentLoaded') => RestartStep
     /\ (persistentLoaded /\ ~RestartStep)
          => \A k \in DOMAIN persistentCache' :
               \/ MapGet(persistentCache, k) = persistentCache'[k]
               \/ CacheStep("set") /\ k = lastOp'.key]_vars

\* the first get of a process has loaded the file an earlier process wrote,
\* removed its own key's expired entry and rewritten the file, which keeps the
\* earlier process's entry for another key
C27_Witness ==
  /\ lastOp.kind = "get"
  /\ ~lastOp.loaded
  /\ lastOp.disk
  /\ lastOp.entry = NoEntry
  /\ persistentLoaded
  /\ cacheFile.kind = "json"
  /\ lastOp.key \notin DOMAIN cacheFile.data
  /\ \E k \in DOMAIN cacheFile.data :
       /\ k \in DOMAIN written
       /\ cacheFile.data[k] = written[k]
       /\ now < written[k].expiresAt
  /\ memoryCache.map = <<>>

\* C28: between the steps of concurrent calls, on a wall clock that is not
\* set back, every unexpired entry of the memory tier is the disk tier's
\* entry for its key, value and expiresAt; and
\* a call that stores the body of its response leaves that entry, expiring
\* ttl seconds later, in both tiers, whatever other calls have stored for the
\* key.
C28_TiersCoherent ==
  [][/\ \A i \in 1..Len(memoryCache'.map) :
          Fresh(memoryCache'.map[i].entry, now')
            => MapGet(persistentCache', memoryCache'.map[i].key) = memoryCache'.map[i].entry
     /\ \A c \in Calls :
          (call[c].pc = "json" /\ call'[c].pc = "returned")
            => LET stored == CacheEntry(call[c].response.body,
                                        now + resolveTtl(call[c].response.cacheControl,
                                                         call[c].req.ttlSeconds) * 1000)
               IN  /\ MemoryEntry(call[c].cacheKey)' = stored
                   /\ MapGet(persistentCache', call[c].cacheKey) = stored]_vars

\* two calls for one key have each stored the body of their own response,
\* the second later than the first, while a third still awaits its response;
\* both tiers hold the entry of the second
C28_Witness ==
  \E c1 \in Calls, c2 \in Calls, c3 \in Calls :
    /\ c1 # c2
    /\ call[c1].pc = "returned" /\ call[c1].sent >= 1
    /\ call[c2].pc = "returned" /\ call[c2].sent >= 1
    /\ call[c3].pc = "fetch"
    /\ call[c1].cacheKey = call[c2].cacheKey
    /\ call[c3].cacheKey = call[c2].cacheKey
    /\ now > 0
    /\ now < 1000
    /\ MemoryEntry(call[c1].cacheKey) = CacheEntry("d1", now + 1000)
    /\ MapGet(persistentCache, call[c1].cacheKey) = CacheEntry("d1", now + 1000)
    /\ cacheFile = JsonStringify(persistentCache)

\* ------------------------------------------- properties of the cache key

\* C29: a call made while the entry fetched by an earlier call is unexpired
\* (and is the entry the tiers hold for its key),
\* with the same method, URL, namespace, locale and tokenUserId but another
\* access token, derives the earlier call's key, sends no request and takes
\* no token: it returns the value the earlier call fetched under its own
\* credentials.
C29_KeyIgnoresAccessToken ==
  [][\A c \in Calls, d \in Calls :
       (/\ Starts(c)
        /\ call[d].pc = "returned"
        /\ call[d].sent >= 1
        /\ call'[c].req.accessToken # call[d].req.accessToken
        /\ [call'[c].req EXCEPT !.accessToken = call[d].req.accessToken] = call[d].req
        /\ now < MapGet(persistentCache, call[d].cacheKey).expiresAt
        /\ MapGet(persistentCache, call[d].cacheKey).value
             = ProfileOf(call[d].req.accessToken))
         => /\ call'[c].cacheKey = call[d].cacheKey
            /\ call'[c].pc = "returned"
            /\ call'[c].sent = 0
            /\ call'[c].result = Returned(ProfileOf(call[d].req.accessToken))
            /\ UNCHANGED bucketVars]_vars

\* the call with access token t2 has returned, without a request, the
\* profile that the call with access token t1 fetched
C29_Witness ==
  /\ call[1].req.accessToken = "t1"
  /\ call[1].pc = "returned"
  /\ call[1].sent >= 1
  /\ call[2].req.accessToken = "t2"
  /\ call[2].req.tokenUserId = call[1].req.tokenUserId
  /\ call[2].pc = "returned"
  /\ call[2].sent = 0
  /\ call[2].result = Returned(ProfileOf("t1"))
  /\ ProfileOf("t1") # ProfileOf("t2")

\* ------------------------------------------ properties of network failures

\* C30: when the network fails a request, whichever attempt it is, the call
\* ends there: getCached throws the rejection, no further request is sent,
\* and both cache tiers, the snapshot file and the buckets are as they were.
\* In every step a bucket keeps its tokens, or is refilled for the time
\* passed and loses one token per call that takes one: no token comes back.
C30_NetworkFailurePropagates ==
  [][/\ \A c \in Calls :
          (call[c].pc = "fetch" /\ call'[c] # call[c] /\ call'[c].lastStatus = 0)
            => /\ call'[c].pc = "thrown"
               /\ call'[c].result = TypeError
               /\ call'[c].sent = call[c].sent
               /\ call'[c].gDebits = 1
               /\ call'[c].uDebits = 1
               /\ UNCHANGED cacheVars
               /\ UNCHANGED bucketVars
     /\ TokensAccounted(globalBucket, globalBucket', GlobalTakers)
     /\ \A id \in DOMAIN userBuckets' :
          TokensAccounted(UserBucketBefore(id), userBuckets'[id], UserTakers(id))]_vars

\* the second request of a call, sent after a 429 and its backoff, has
\* failed at the network: the call has thrown the TypeError after two
\* requests, nothing is cached, and the global bucket, which no call has
\* used since, still lacks the token the call took
C30_Witness ==
  \E c \in Calls :
    /\ call[c].pc = "thrown"
    /\ call[c].result = TypeError
    /\ call[c].sent = 2
    /\ call[c].lastStatus = 0
    /\ call[c].gDebits = 1
    /\ call[c].uDebits = 1
    /\ made = 1
    /\ persistentCache = EmptyMap
    /\ cacheFile = NoFile
    /\ globalBucket.tokens = (GLOBAL_RPS - 1) * TOKEN_SCALE
    /\ globalBucket.lastRefill = 0

\* ------------------------------------------------ properties of progress

\* call c is between its start and its end
InFlight(c) == call[c].pc \in {"throttle", "fetch", "backoff", "json"}
\* call c gave its caller a value or an error
Over(c) == call[c].pc \in {"returned", "thrown"}

\* C26: with the timers firing, the network answering and the clock
\* advancing, every call in flight leaves throttle with its two tokens and
\* then returns a value or throws; on the way it sends at most 4 requests and
\* sleeps the backoff after at most 3 of them, each sleep within 8000 ms plus
\* jitter; and no timer is set beyond the instant the clock of the runs
\* reaches.
C26_Termination ==
  /\ \A c \in 1..LiveCalls :
       /\ (call[c].pc = "throttle") ~> (call[c].pc = "fetch")
       /\ InFlight(c) ~> Over(c)
  /\ [](\A c \in 1..LiveCalls :
          /\ call[c].sent <= MAX_RETRIES
          /\ call[c].pc = "backoff"
               => /\ call[c].attempt <= MAX_RETRIES - 1
                  /\ call[c].sleepMs < MAX_BACKOFF_MS + JITTER_MS
          /\ call[c].waited < (MAX_RETRIES - 1) * (MAX_BACKOFF_MS + JITTER_MS))
  /\ [](\A d \in TimerDeadlines : d <= LiveSeconds * 1000)

\* the three calls are over; one of them waited for its caller's bucket to
\* refill, and one threw the 429 that answered its fourth request, three
\* backoff sleeps after its first
C26_Witness ==
  /\ \A c \in Calls : Over(c) /\ call[c].gDebits = 1 /\ call[c].uDebits = 1
  /\ userBuckets[User1].lastRefill > 0
  /\ \E c \in Calls :
       /\ call[c].pc = "thrown"
       /\ call[c].sent = MAX_RETRIES
       /\ call[c].waited = 1000 + 2000 + 4000
  /\ mono > 7000

====
